---------------------------- MODULE Spec2Model ----------------------------
(***************************************************************************)
(* A model of the purrgram compiler front end and driver:                  *)
(*   Lexer.tokenize -> Sanitizer.sanitize -> Parser.parse_program ->       *)
(*   Compiler.compile -> run_execution, as sequenced by main.py.           *)
(*                                                                         *)
(* Source text is a sequence of one-character strings.  Python's None is   *)
(* the string NoChar / the record NoToken / the string "None".  A Python   *)
(* exception that leaves a function is carried in the field exc of the     *)
(* function's result ("" when the function returned normally).             *)
(***************************************************************************)
EXTENDS Integers, Sequences, FiniteSets, TLC

VARIABLES
    pc,          \* position of the driver (main.py) or of the unit being run
    src,         \* the source text, Lexer.source_code
    lexer,       \* the Lexer object: [pos, toks, errs, exc]
    tokens,      \* the token list returned by tokenize / rewritten by sanitize
    passes,      \* number of times sanitize has been applied to tokens
    parser,      \* the Parser object and its Program: [pos, errs, excs, exc, node]
    compiler,    \* the Compiler object: environment frames, loop stacks, work left
    started,     \* the stages entered so far, in order
    ran,         \* the JIT-compiled program has been run
    exitCode     \* <<status>> once the process has exited, <<>> before

vars == <<pc, src, lexer, tokens, passes, parser, compiler, started, ran, exitCode>>

-----------------------------------------------------------------------------
(* Characters (Lexer.py class constants).                                   *)

NoChar == "<None>"

WHITESPACE == {" ", "\t", "\n", "\r", "\f"}
DIGITS == {"0", "1", "2", "3", "4", "5", "6", "7", "8", "9"}
LETTERS == {"a", "b", "c", "d", "e", "f", "g", "h", "i", "j", "k", "l", "m",
            "n", "o", "p", "q", "r", "s", "t", "u", "v", "w", "x", "y", "z",
            "A", "B", "C", "D", "E", "F", "G", "H", "I", "J", "K", "L", "M",
            "N", "O", "P", "Q", "R", "S", "T", "U", "V", "W", "X", "Y", "Z"}
ALPHANUMERIC == LETTERS \cup DIGITS

-----------------------------------------------------------------------------
(* Position: byte index, line, column.                                      *)

Position(idx, ln, col) == [idx |-> idx, ln |-> ln, col |-> col]

\* Position.advance(current_char)
PosAdvance(p, ch) ==
    IF ch = "\n"
    THEN [idx |-> p.idx + 1, ln |-> p.ln + 1, col |-> 0]
    ELSE [idx |-> p.idx + 1, ln |-> p.ln, col |-> p.col + 1]

-----------------------------------------------------------------------------
(* Tokens.                                                                  *)

\* Token.__init__: pos_end defaults to pos_start advanced by one character
Token(type, literal, ps, pe) ==
    [type |-> type, literal |-> literal, ps |-> ps, pe |-> pe]

Token1(type, literal, ps) == Token(type, literal, ps, PosAdvance(ps, NoChar))

KEYWORDS == {"and", "or", "not", "var", "def", "return", "if", "elif", "else",
             "true", "false", "while", "continue", "break", "import", "end"}

KeywordType(w) ==
    CASE w = "and" -> "AND"
      [] w = "or" -> "OR"
      [] w = "not" -> "NOT"
      [] w = "var" -> "VAR"
      [] w = "def" -> "DEF"
      [] w = "return" -> "RETURN"
      [] w = "if" -> "IF"
      [] w = "elif" -> "ELIF"
      [] w = "else" -> "ELSE"
      [] w = "true" -> "TRUE"
      [] w = "false" -> "FALSE"
      [] w = "while" -> "WHILE"
      [] w = "continue" -> "CONTINUE"
      [] w = "break" -> "BREAK"
      [] w = "import" -> "IMPORT"
      [] w = "end" -> "END"

TYPE_KEYWORDS == {"int", "float", "bool", "str", "void"}

\* Token.lookup_ident
lookup_ident(ident) ==
    IF ident \in KEYWORDS THEN KeywordType(ident)
    ELSE IF ident \in TYPE_KEYWORDS THEN "TYPE"
    ELSE "IDENT"

\* ErrorHandler.add_error builds an Error(pos_start, pos_end, error_name, details)
Error(ps, pe, name, details) ==
    [ps |-> ps, pe |-> pe, name |-> name, details |-> details]

-----------------------------------------------------------------------------
(* Lexer.  A lexer state is [pos, toks, errs, exc]; s is source_code.       *)

\* Lexer.current_char as maintained by Lexer.advance
CurChar(s, p) == IF p.idx >= 0 /\ p.idx < Len(s) THEN s[p.idx + 1] ELSE NoChar

\* Lexer.advance
LexAdvance(s, p) == PosAdvance(p, CurChar(s, p))

\* Lexer.__init__: Position(idx=-1, ln=1, col=0) then advance()
LexerInit(s) ==
    [pos |-> PosAdvance(Position(-1, 1, 0), NoChar),
     toks |-> <<>>, errs |-> <<>>, exc |-> ""]

AddTok(L, p, tok) == [L EXCEPT !.pos = p, !.toks = Append(@, tok)]

\* the error range start_pos = position.copy(), end_pos = copy advanced once
ErrorHere(p, details) ==
    Error(p, PosAdvance(p, NoChar), "Lexical Error", details)

RECURSIVE skip_whitespace(_, _)
\* Lexer._skip_whitespace
skip_whitespace(s, p) ==
    IF CurChar(s, p) \in WHITESPACE THEN skip_whitespace(s, LexAdvance(s, p)) ELSE p

RECURSIVE SkipToNewline(_, _)
SkipToNewline(s, p) ==
    IF CurChar(s, p) # NoChar /\ CurChar(s, p) # "\n"
    THEN SkipToNewline(s, LexAdvance(s, p)) ELSE p

\* Lexer._skip_comment: the final advance() runs even at the end of the input
skip_comment(s, p) == LexAdvance(s, SkipToNewline(s, p))

RECURSIVE ScanIdentifier(_, _, _)
ScanIdentifier(s, p, acc) ==
    IF CurChar(s, p) \in ALPHANUMERIC \cup {"_"}
    THEN ScanIdentifier(s, LexAdvance(s, p), acc \o CurChar(s, p))
    ELSE [pos |-> p, text |-> acc]

\* Lexer._process_identifier
process_identifier(s, L) ==
    LET r == ScanIdentifier(s, L.pos, "")
    IN  AddTok(L, r.pos, Token(lookup_ident(r.text), r.text, L.pos, r.pos))

RECURSIVE ScanNumber(_, _, _, _, _)
\* the while loop of Lexer._process_number
ScanNumber(s, p, dots, acc, errs) ==
    LET c == CurChar(s, p) IN
    IF c \in DIGITS \cup {"."}
    THEN IF c = "." /\ dots # 0
         THEN [pos |-> p, dots |-> dots, text |-> acc,
               errs |-> Append(errs, ErrorHere(p, "multiple decimal points"))]
         ELSE ScanNumber(s, LexAdvance(s, p), IF c = "." THEN dots + 1 ELSE dots,
                         acc \o c, errs)
    ELSE [pos |-> p, dots |-> dots, text |-> acc, errs |-> errs]

\* Lexer._process_number
process_number(s, L) ==
    LET r == ScanNumber(s, L.pos, 0, "", L.errs)
        L1 == [L EXCEPT !.errs = r.errs]
    IN  AddTok(L1, r.pos,
               Token(IF r.dots = 0 THEN "INT" ELSE "FLOAT", r.text, L.pos, r.pos))

RECURSIVE ScanString(_, _, _)
\* the while loop of Lexer._process_string; a backslash that is the last
\* character makes string_content += None raise TypeError
ScanString(s, p, acc) ==
    LET c == CurChar(s, p) IN
    IF c # NoChar /\ c # "\""
    THEN IF c = "\\"
         THEN LET p1 == LexAdvance(s, p)
                  c1 == CurChar(s, p1)
              IN  IF c1 = NoChar
                  THEN [pos |-> p1, text |-> acc \o c, exc |-> "TypeError"]
                  ELSE ScanString(s, LexAdvance(s, p1), (acc \o c) \o c1)
         ELSE ScanString(s, LexAdvance(s, p), acc \o c)
    ELSE [pos |-> p, text |-> acc, exc |-> ""]

\* Lexer._process_string
process_string(s, L) ==
    LET r == ScanString(s, LexAdvance(s, L.pos), "")
    IN  IF r.exc # ""
        THEN [L EXCEPT !.pos = r.pos, !.exc = r.exc]
        ELSE IF CurChar(s, r.pos) = NoChar
        THEN \* _report_unterminated_string(start_pos)
             AddTok([L EXCEPT !.errs = Append(@,
                        Error(L.pos, PosAdvance(r.pos, NoChar), "Lexical Error",
                              "Unterminated string literal"))],
                    r.pos, Token("STRING", r.text, L.pos, r.pos))
        ELSE LET p2 == LexAdvance(s, r.pos)
             IN  AddTok(L, p2, Token("STRING", r.text, L.pos, p2))

\* The operator lexemes: after the first character, an optional second
\* character chosen from a table second-character -> token type.
TwoCharOp(s, L, single, second) ==
    LET c0 == CurChar(s, L.pos)
        p1 == LexAdvance(s, L.pos)
        c1 == CurChar(s, p1)
    IN  IF c1 \in DOMAIN second
        THEN LET p2 == LexAdvance(s, p1)
             IN  AddTok(L, p2, Token(second[c1], c0 \o c1, L.pos, p2))
        ELSE AddTok(L, p1, Token(single, c0, L.pos, p1))

\* Lexer._process_plus_or_add_equals
process_plus_or_add_equals(s, L) == TwoCharOp(s, L, "PLUS", [c \in {"="} |-> "PLUS_EQ"])

\* Lexer._process_minus_or_arrow
process_minus_or_arrow(s, L) ==
    TwoCharOp(s, L, "MINUS", [c \in {">", "="} |-> IF c = ">" THEN "ARROW" ELSE "MINUS_EQ"])

\* Lexer._process_asterisks
process_asterisks(s, L) ==
    LET p1 == LexAdvance(s, L.pos)
        c1 == CurChar(s, p1)
        p2 == LexAdvance(s, p1)
        c2 == CurChar(s, p2)
        p3 == LexAdvance(s, p2)
    IN  IF c1 = "*"
        THEN IF c2 = "="
             THEN AddTok(L, p3, Token("POW_EQ", "**=", L.pos, p3))
             ELSE AddTok(L, p2, Token("POW", "**", L.pos, p2))
        ELSE IF c1 = "="
        THEN AddTok(L, p2, Token("MUL_EQ", "*=", L.pos, p2))
        ELSE AddTok(L, p1, Token("ASTERISK", "*", L.pos, p1))

\* Lexer._process_slash_or_div_equals
process_slash_or_div_equals(s, L) == TwoCharOp(s, L, "SLASH", [c \in {"="} |-> "DIV_EQ"])

\* Lexer._process_modulus_or_mod_equals
process_modulus_or_mod_equals(s, L) == TwoCharOp(s, L, "MODULUS", [c \in {"="} |-> "MOD_EQ"])

\* Lexer._process_equals
process_equals(s, L) == TwoCharOp(s, L, "EQ", [c \in {"="} |-> "EQ_EQ"])

\* Lexer._process_greater_than
process_greater_than(s, L) == TwoCharOp(s, L, "GT", [c \in {"="} |-> "GT_EQ"])

\* Lexer._process_less_than
process_less_than(s, L) == TwoCharOp(s, L, "LT", [c \in {"="} |-> "LT_EQ"])

\* Lexer._process_not_equals
process_not_equals(s, L) ==
    LET p1 == LexAdvance(s, L.pos)
        p2 == LexAdvance(s, p1)
    IN  IF CurChar(s, p1) = "="
        THEN AddTok(L, p2, Token("NOT_EQ", "!=", L.pos, p2))
        ELSE AddTok([L EXCEPT !.errs = Append(@,
                        Error(L.pos, p1, "Lexical error", "'!' must be followed by '='"))],
                    p1, Token("ILLEGAL", "!", L.pos, p1))

\* Lexer._process_illegal_character: the token's pos_end is the cursor
\* before it advances, i.e. the token's own pos_start
process_illegal_character(s, L) ==
    AddTok([L EXCEPT !.errs = Append(@, ErrorHere(L.pos, "Unrecognized character"))],
           LexAdvance(s, L.pos),
           Token("ILLEGAL", CurChar(s, L.pos), L.pos, L.pos))

\* Lexer._is_invalid_decimal_point.  The second operand reads the name DIGITS,
\* which is bound in no scope of the method (only self.DIGITS exists), so
\* evaluating it raises NameError: the result is "NameError" whenever the
\* current character is '.' and another character follows.
is_invalid_decimal_point(s, p) ==
    IF CurChar(s, p) # "." THEN "False"
    ELSE IF p.idx + 1 >= Len(s) THEN "True"
    ELSE "NameError"

SingleCharType(c) ==
    CASE c = ":" -> "COLON"
      [] c = "(" -> "LPAREN"
      [] c = ")" -> "RPAREN"
      [] c = "," -> "COMMA"
      [] c = ";" -> "SEMICOLON"

\* One pass through the while loop of Lexer.tokenize (current_char is not None)
TokenizePass(s, L) ==
    LET c == CurChar(s, L.pos) IN
    CASE c \in WHITESPACE -> [L EXCEPT !.pos = skip_whitespace(s, L.pos)]
      [] c = "#" -> [L EXCEPT !.pos = skip_comment(s, L.pos)]
      [] c \in LETTERS \cup {"_"} -> process_identifier(s, L)
      [] c \in DIGITS \cup {"."} ->
            LET inv == is_invalid_decimal_point(s, L.pos) IN
            IF inv = "NameError" THEN [L EXCEPT !.exc = "NameError"]
            ELSE IF inv = "True"
            THEN \* _report_invalid_decimal_point(); advance(); continue
                 [L EXCEPT !.errs = Append(@, ErrorHere(L.pos, "decimal point must be followed by a digit")),
                           !.pos = LexAdvance(s, L.pos)]
            ELSE process_number(s, L)
      [] c = "\"" -> process_string(s, L)
      [] c = "+" -> process_plus_or_add_equals(s, L)
      [] c = "-" -> process_minus_or_arrow(s, L)
      [] c = "*" -> process_asterisks(s, L)
      [] c = "/" -> process_slash_or_div_equals(s, L)
      [] c = "%" -> process_modulus_or_mod_equals(s, L)
      [] c = "=" -> process_equals(s, L)
      [] c \in {":", "(", ")", ",", ";"} ->
            AddTok(L, LexAdvance(s, L.pos), Token1(SingleCharType(c), c, L.pos))
      [] c = ">" -> process_greater_than(s, L)
      [] c = "<" -> process_less_than(s, L)
      [] c = "!" -> process_not_equals(s, L)
      [] OTHER -> process_illegal_character(s, L)

\* The end of Lexer.tokenize: tokens.append(Token(EOF, pos_start=self.position))
TokenizeEOF(L) == AddTok(L, L.pos, Token1("EOF", "None", L.pos))

RECURSIVE TokenizeLoop(_, _)
TokenizeLoop(s, L) ==
    IF L.exc # "" THEN L
    ELSE IF CurChar(s, L.pos) = NoChar THEN TokenizeEOF(L)
    ELSE TokenizeLoop(s, TokenizePass(s, L))

\* Lexer(source_code).tokenize()
tokenize(s) == TokenizeLoop(s, LexerInit(s))

-----------------------------------------------------------------------------
(* Sanitizer: automatic semicolon insertion.                                *)

ExpressionClosers == {"RPAREN", "IDENT", "STRING", "INT", "FLOAT", "FALSE", "TRUE"}

StatementStarters ==
    {"LPAREN", "IDENT", "STRING", "INT", "FLOAT", "FALSE", "TRUE", "DEF", "RETURN",
     "IF", "ELIF", "ELSE", "END", "VAR", "WHILE", "BREAK", "CONTINUE"}

ReturnFollowers ==
    {"BREAK", "CONTINUE", "DEF", "ELIF", "ELSE", "END", "IF", "RETURN", "VAR", "WHILE"}

FinalClosers == ExpressionClosers \cup {"BREAK", "CONTINUE", "RETURN"}

\* InsertAfter without the comparison of the two tokens' lines
InsertAfterAnyLine(prev, cur) ==
    IF cur.type # "EOF"
    THEN IF prev.type \in ExpressionClosers THEN cur.type \in StatementStarters
         ELSE IF prev.type \in {"BREAK", "CONTINUE"} THEN TRUE
         ELSE IF prev.type = "RETURN" THEN cur.type \in ReturnFollowers
         ELSE FALSE
    ELSE prev.type \in FinalClosers

\* the body of the first loop of sanitize for one pair (prev, cur), prev not None
InsertAfter(prev, cur) ==
    IF cur.type # "EOF" /\ prev.pe.ln # cur.ps.ln
    THEN IF prev.type \in ExpressionClosers THEN cur.type \in StatementStarters
         ELSE IF prev.type \in {"BREAK", "CONTINUE"} THEN TRUE
         ELSE IF prev.type = "RETURN" THEN cur.type \in ReturnFollowers
         ELSE FALSE
    ELSE IF cur.type = "EOF" THEN prev.type \in FinalClosers
    ELSE FALSE

\* insert_positions when every token before a line break or EOF is given one
InsertPositionsAtLineBreaks(toks) ==
    {toks[i - 1].pe.idx : i \in {j \in 2..Len(toks) :
        toks[j].type = "EOF" \/ toks[j - 1].pe.ln # toks[j].ps.ln}}

\* insert_positions: byte indexes, kept as a set
InsertPositions(toks) ==
    {toks[i - 1].pe.idx : i \in {j \in 2..Len(toks) : InsertAfter(toks[j - 1], toks[j])}}

\* the semicolon token created just after token
SemicolonAfter(token) ==
    Token("SEMICOLON", ";", token.pe, PosAdvance(token.pe, NoChar))

RECURSIVE Reconstruct(_, _, _)
\* the second loop of sanitize
Reconstruct(toks, i, ins) ==
    IF i > Len(toks) THEN <<>>
    ELSE (IF toks[i].pe.idx \in ins
          THEN <<toks[i], SemicolonAfter(toks[i])>>
          ELSE <<toks[i]>>) \o Reconstruct(toks, i + 1, ins)

\* Sanitizer.sanitize
sanitize(toks) == Reconstruct(toks, 1, InsertPositions(toks))

-----------------------------------------------------------------------------
(* Parser.  T is Parser.tokens.  A parser state / result is                 *)
(*   [pos, errs, excs, exc, node]:                                          *)
(*   pos  = Parser.pos (0-based), errs = error_handler.errors,              *)
(*   excs = Parser.exceptions, exc = the exception leaving the function,    *)
(*   node = the value returned.                                             *)

\* PrecedenceType
LOWEST == 0
EQUALS == 1
LESSGREATER == 2
SUM == 3
PRODUCT == 4
EXPONENT == 5
PREFIX == 6
CALL == 7

\* PRECEDENCES.get(type, LOWEST)
Precedence(type) ==
    CASE type \in {"PLUS", "MINUS"} -> SUM
      [] type \in {"ASTERISK", "SLASH", "MODULUS"} -> PRODUCT
      [] type = "POW" -> EXPONENT
      [] type \in {"EQ_EQ", "NOT_EQ"} -> EQUALS
      [] type \in {"LT", "GT", "LT_EQ", "GT_EQ"} -> LESSGREATER
      [] type = "LPAREN" -> CALL
      [] OTHER -> LOWEST

\* the keys of Parser.prefix_parse_fns
PrefixTypes == {"IDENT", "INT", "FLOAT", "STRING", "LPAREN", "TRUE", "FALSE", "MINUS", "NOT"}

\* the keys of Parser.infix_parse_fns that map to parse_infix_expression
InfixTypes == {"PLUS", "MINUS", "ASTERISK", "SLASH", "MODULUS", "POW",
               "EQ_EQ", "NOT_EQ", "LT", "GT", "LT_EQ", "GT_EQ"}

AssignmentOperators == {"EQ", "PLUS_EQ", "MINUS_EQ", "MUL_EQ", "DIV_EQ", "POW_EQ", "MOD_EQ"}

NoToken == [type |-> "None", literal |-> "None"]
NoNode == [type |-> "None"]

\* Parser.current_token for a given Parser.pos
Cur(T, pos) == IF pos >= 0 /\ pos < Len(T) THEN T[pos + 1] ELSE NoToken

\* Parser.peek_token
peek_token(T, P) == Cur(T, P.pos + 1)

\* Parser.__init__: pos = -1 then advance()
ParserInit == [pos |-> 0, errs |-> <<>>, excs |-> <<>>, exc |-> "", node |-> NoNode]

\* Parser.advance
Adv(P) == [P EXCEPT !.pos = @ + 1]

Return(P, node) == [P EXCEPT !.exc = "", !.node = node]
Raise(P, e) == [P EXCEPT !.exc = e, !.node = NoNode]

RECURSIVE SynchronizeToEnd(_, _)
\* a synchronize that skips the rest of the token stream
SynchronizeToEnd(T, pos) ==
    IF Cur(T, pos) # NoToken /\ Cur(T, pos).type # "EOF"
    THEN SynchronizeToEnd(T, pos + 1) ELSE pos

RECURSIVE synchronize(_, _)
\* Parser.synchronize([SEMICOLON])
synchronize(T, pos) ==
    IF Cur(T, pos) # NoToken /\ Cur(T, pos).type \notin {"SEMICOLON", "EOF"}
    THEN synchronize(T, pos + 1) ELSE pos

\* Parser.report_error always advances past the synchronisation token
ReportAdvance(P) == Adv(P)

\* a report_error that skips to the next `;` and stays on it
ReportErrorStaysOnSemicolon(T, P, token, message) ==
    IF token = NoToken THEN Raise(P, "AttributeError")
    ELSE LET P1 == [P EXCEPT !.errs = Append(@,
                        Error(token.ps, token.pe, "Syntax Error", message))]
         IN  Raise([P1 EXCEPT !.pos = synchronize(T, P1.pos)], "Exception")

\* Parser.report_error (do_advance is True at every call site); evaluating
\* token.pos_start for token None raises AttributeError before add_error runs
report_error(T, P, token, message) ==
    IF token = NoToken THEN Raise(P, "AttributeError")
    ELSE LET P1 == [P EXCEPT !.errs = Append(@,
                        Error(token.ps, token.pe, "Syntax Error", message))]
             P2 == [P1 EXCEPT !.pos = synchronize(T, P1.pos)]
         IN  Raise(ReportAdvance(P2), "Exception")

\* Parser.expect_token: returns normally (True) or raises through report_error
expect_token(T, P, type, message, do_advance, look_current, error_at_current) ==
    LET token == IF look_current THEN Cur(T, P.pos) ELSE peek_token(T, P) IN
    IF token # NoToken /\ token.type = type
    THEN Return(IF do_advance THEN Adv(P) ELSE P, NoNode)
    ELSE report_error(T, P,
                      IF look_current \/ error_at_current THEN Cur(T, P.pos)
                      ELSE peek_token(T, P),
                      message)

\* an expect_semicolon that takes a semicolon if there is one and reports
\* nothing otherwise
ExpectSemicolonOptional(T, P) ==
    Return(IF peek_token(T, P).type = "SEMICOLON" THEN Adv(P) ELSE P, NoNode)

\* Parser.expect_semicolon
expect_semicolon(T, P) ==
    expect_token(T, P, "SEMICOLON", "Expected semicolon", TRUE, FALSE, TRUE)

\* AST node constructors
IdentifierLiteral(v) == [type |-> "IdentifierLiteral", value |-> v]
IntegerLiteral(v) == [type |-> "IntegerLiteral", value |-> v]
FloatLiteral(v) == [type |-> "FloatLiteral", value |-> v]
StringLiteral(v) == [type |-> "StringLiteral", value |-> v]
BooleanLiteral(v) == [type |-> "BooleanLiteral", value |-> v]
InfixExpression(l, op, r) ==
    [type |-> "InfixExpression", left_node |-> l, operator |-> op, right_node |-> r]
PrefixExpression(op, r) == [type |-> "PrefixExpression", operator |-> op, right_node |-> r]
CallExpression(f, args) == [type |-> "CallExpression", function |-> f, args |-> args]
ExpressionStatement(e) == [type |-> "ExpressionStatement", expr |-> e]
VarStatement(n, v, vt) == [type |-> "VarStatement", name |-> n, value |-> v, value_type |-> vt]
AssignStatement(i, op, r) ==
    [type |-> "AssignStatement", ident |-> i, operator |-> op, right_value |-> r]
ReturnStatement(v) == [type |-> "ReturnStatement", return_value |-> v]
IfStatement(c, b, e) == [type |-> "IfStatement", condition |-> c, body |-> b, else_body |-> e]
WhileStatement(c, b) == [type |-> "WhileStatement", condition |-> c, body |-> b]
BreakStatement == [type |-> "BreakStatement"]
ContinueStatement == [type |-> "ContinueStatement"]
ImportStatement(f) == [type |-> "ImportStatement", file_path |-> f]
FunctionParameter(n, vt) == [type |-> "FunctionParameter", name |-> n, value_type |-> vt]
FunctionStatement(n, ps, rt, b) ==
    [type |-> "FunctionStatement", name |-> n, parameters |-> ps, return_type |-> rt, body |-> b]

\* what follows a call in the Python code: an exception raised by the call
\* goes on up, otherwise the rest runs on the state the call left
Try(r, Rest(_)) == IF r.exc # "" THEN r ELSE Rest(r)

RECURSIVE parse_statement(_, _)
RECURSIVE parse_expression(_, _, _)
RECURSIVE InfixLoop(_, _, _)
RECURSIVE parse_infix_expression(_, _, _)
RECURSIVE parse_call_expression(_, _, _)
RECURSIVE parse_expression_list(_, _)
RECURSIVE ArgumentLoop(_, _, _)
RECURSIVE parse_grouped_expression(_, _)
RECURSIVE parse_prefix_expression(_, _)
RECURSIVE BodyLoop(_, _, _, _)
RECURSIVE BodyNext(_, _, _, _, _)
RECURSIVE ElseBody(_, _)
RECURSIVE parse_if_statement(_, _)

\* the literal prefix parse functions: parse_identifier, parse_int_literal,
\* parse_float_literal, parse_string_literal, parse_boolean
ParseLiteral(T, P) ==
    LET tok == Cur(T, P.pos) IN
    Return(P, CASE tok.type = "IDENT" -> IdentifierLiteral(tok.literal)
                [] tok.type = "INT" -> IntegerLiteral(tok.literal)
                [] tok.type = "FLOAT" -> FloatLiteral(tok.literal)
                [] tok.type = "STRING" -> StringLiteral(tok.literal)
                [] tok.type \in {"TRUE", "FALSE"} -> BooleanLiteral(tok.literal = "true"))

\* the right operand parsed at the operator's own precedence, also for `**`
RightOperandSamePrecedence(type) == Precedence(type)

\* the precedence at which parse_infix_expression parses its right operand
RightOperandPrecedence(type) ==
    IF type = "POW" THEN Precedence(type) - 1 ELSE Precedence(type)

\* Parser.parse_infix_expression; the operator is the current token
parse_infix_expression(T, P, left) ==
    Try(parse_expression(T, Adv(P), RightOperandPrecedence(Cur(T, P.pos).type)),
        LAMBDA r : Return(r, InfixExpression(left, Cur(T, P.pos).literal, r.node)))

\* the while loop of Parser.parse_expression_list
ArgumentLoop(T, P, args) ==
    IF peek_token(T, P).type = "COMMA"
    THEN Try(parse_expression(T, Adv(Adv(P)), LOWEST),
             LAMBDA r : ArgumentLoop(T, r, Append(args, r.node)))
    ELSE Return(P, args)

\* Parser.parse_expression_list(RPAREN)
parse_expression_list(T, P) ==
    IF peek_token(T, P).type = "RPAREN" THEN Return(Adv(P), <<>>)
    ELSE Try(parse_expression(T, Adv(P), LOWEST), LAMBDA r1 :
         Try(ArgumentLoop(T, r1, <<r1.node>>), LAMBDA r2 :
         Try(expect_token(T, r2, "RPAREN", "Expected closing token", TRUE, FALSE, TRUE),
             LAMBDA r3 : Return(r3, r2.node))))

\* Parser.parse_call_expression: any left expression becomes the callee
parse_call_expression(T, P, function) ==
    Try(parse_expression_list(T, P),
        LAMBDA r : Return(r, CallExpression(function, r.node)))

\* Parser.parse_grouped_expression
parse_grouped_expression(T, P) ==
    Try(parse_expression(T, Adv(P), LOWEST), LAMBDA r1 :
    Try(expect_token(T, r1, "RPAREN", "Expected closing parenthesis", TRUE, FALSE, TRUE),
        LAMBDA r2 : Return(r2, r1.node)))

\* Parser.parse_prefix_expression; the operator is the current token
parse_prefix_expression(T, P) ==
    Try(parse_expression(T, Adv(P), PREFIX),
        LAMBDA r : Return(r, PrefixExpression(Cur(T, P.pos).literal, r.node)))

\* the while loop of Parser.parse_expression; P.node is left_expr
InfixLoop(T, P, precedence) ==
    LET peek == peek_token(T, P) IN
    IF peek # NoToken /\ peek.type # "SEMICOLON" /\ precedence < Precedence(peek.type)
    THEN Try(IF peek.type = "LPAREN"
             THEN parse_call_expression(T, Adv(P), P.node)
             ELSE parse_infix_expression(T, Adv(P), P.node),
             LAMBDA r : InfixLoop(T, r, precedence))
    ELSE P

\* Parser.parse_expression
parse_expression(T, P, precedence) ==
    LET tok == Cur(T, P.pos) IN
    IF tok = NoToken THEN Raise(P, "AttributeError")
    ELSE IF tok.type \notin PrefixTypes
    THEN report_error(T, P, tok, "Expected expression")
    ELSE Try(CASE tok.type = "LPAREN" -> parse_grouped_expression(T, P)
               [] tok.type \in {"MINUS", "NOT"} -> parse_prefix_expression(T, P)
               [] OTHER -> ParseLiteral(T, P),
             LAMBDA left : InfixLoop(T, left, precedence))

\* Parser.parse_assignment_statement; the identifier is the current token
\* and the operator the one after it
parse_assignment_statement(T, P) ==
    Try(parse_expression(T, Adv(Adv(P)), LOWEST), LAMBDA r1 :
    Try(expect_semicolon(T, r1), LAMBDA r2 :
        Return(r2, AssignStatement(IdentifierLiteral(Cur(T, P.pos).literal),
                                   Cur(T, P.pos + 1).literal, r1.node))))

\* Parser.parse_var_statement
parse_var_statement(T, P) ==
    Try(expect_token(T, P, "IDENT", "Expected identifier after 'var'", TRUE, FALSE, FALSE),
        LAMBDA r1 :
    Try(expect_token(T, r1, "COLON", "Expected colon", TRUE, FALSE, FALSE), LAMBDA r2 :
    Try(expect_token(T, r2, "TYPE", "Expected type", TRUE, FALSE, FALSE), LAMBDA r3 :
        IF peek_token(T, r3).type = "SEMICOLON"
        THEN Return(Adv(r3), VarStatement(IdentifierLiteral(Cur(T, r1.pos).literal),
                                          NoNode, Cur(T, r3.pos).literal))
        ELSE
    Try(expect_token(T, r3, "EQ", "Expected '=' or ';' after type", TRUE, FALSE, FALSE),
        LAMBDA r4 :
    Try(parse_expression(T, Adv(r4), LOWEST), LAMBDA r5 :
    Try(expect_semicolon(T, r5), LAMBDA r6 :
        Return(r6, VarStatement(IdentifierLiteral(Cur(T, r1.pos).literal),
                                r5.node, Cur(T, r3.pos).literal))))))))

\* Parser.parse_break_statement
parse_break_statement(T, P) ==
    Try(expect_semicolon(T, P), LAMBDA r : Return(r, BreakStatement))

\* parse_continue_statement without the call of expect_semicolon
ContinueWithoutSemicolon(T, P) == Return(P, ContinueStatement)

\* Parser.parse_continue_statement
parse_continue_statement(T, P) ==
    Try(expect_semicolon(T, P), LAMBDA r : Return(r, ContinueStatement))

\* Parser.parse_import_statement
parse_import_statement(T, P) ==
    Try(expect_token(T, P, "STRING", "Expected a file path!", TRUE, FALSE, FALSE),
        LAMBDA r1 :
    Try(expect_semicolon(T, r1), LAMBDA r2 :
        Return(r2, ImportStatement(Cur(T, r1.pos).literal))))

\* Parser.parse_return_statement
parse_return_statement(T, P) ==
    Try(parse_expression(T, Adv(P), LOWEST), LAMBDA r1 :
    Try(expect_semicolon(T, r1), LAMBDA r2 : Return(r2, ReturnStatement(r1.node))))

\* Parser.parse_expression_statement
parse_expression_statement(T, P) ==
    Try(parse_expression(T, P, LOWEST), LAMBDA r1 :
    Try(expect_semicolon(T, r1), LAMBDA r2 : Return(r2, ExpressionStatement(r1.node))))

\* the token types at which the body loop of a block leaves
BodyStops(kind) ==
    CASE kind = "if" -> {"ELIF", "ELSE", "END"}
      [] kind \in {"else", "while"} -> {"END"}
      [] kind = "def" -> {"END", "EOF"}

\* The statement loops of parse_if_statement (then and else body),
\* parse_while_statement and parse_function_statement: try a statement and
\* advance, or record the exception and go on.  A pass that neither leaves
\* the loop nor moves Parser.pos forward would repeat forever: it is
\* reported as the pseudo exception "Hang", which nothing catches.
BodyLoop(T, P, body, kind) ==
    LET tok == Cur(T, P.pos) IN
    IF tok = NoToken \/ tok.type \in BodyStops(kind) THEN Return(P, body)
    ELSE BodyNext(T, P, body, kind, parse_statement(T, P))

\* the rest of one pass of the loop, r being the outcome of parse_statement
BodyNext(T, P, body, kind, r) ==
    LET P1 == IF r.exc = "" THEN Adv(r)
              ELSE [r EXCEPT !.excs = Append(@, r.exc), !.exc = ""]
        body1 == IF r.exc = "" THEN Append(body, r.node) ELSE body
    IN  IF r.exc = "Hang" THEN r
        ELSE IF P1.pos <= P.pos THEN Raise(P1, "Hang")
        ELSE BodyLoop(T, P1, body1, kind)

\* the elif / else part of Parser.parse_if_statement: the state after it,
\* with else_body as its node
ElseBody(T, P) ==
    CASE Cur(T, P.pos).type = "ELIF" ->
            Try(parse_if_statement(T, P), LAMBDA e : Return(e, <<e.node>>))
      [] Cur(T, P.pos).type = "ELSE" ->
            Try(expect_token(T, P, "COLON", "Expected colon ':' after 'else'",
                             TRUE, FALSE, FALSE),
                LAMBDA c : BodyLoop(T, Adv(c), <<>>, "else"))
      [] OTHER -> Return(P, <<>>)

\* Parser.parse_if_statement
parse_if_statement(T, P) ==
    Try(parse_expression(T, Adv(P), LOWEST), LAMBDA r1 :
    Try(expect_token(T, r1, "COLON", "Expected colon ':' after condition",
                     TRUE, FALSE, FALSE), LAMBDA r2 :
    Try(BodyLoop(T, Adv(r2), <<>>, "if"), LAMBDA r3 :
    Try(ElseBody(T, r3), LAMBDA r4 :
    Try(expect_token(T, r4, "END", "Expected 'end' after if block", FALSE, TRUE, FALSE),
        LAMBDA r5 : Return(r5, IfStatement(r1.node, r3.node, r4.node)))))))

\* Parser.parse_while_statement
parse_while_statement(T, P) ==
    Try(parse_expression(T, Adv(P), LOWEST), LAMBDA r1 :
    Try(expect_token(T, r1, "COLON", "Expected colon ':' after condition",
                     TRUE, FALSE, FALSE), LAMBDA r2 :
    Try(BodyLoop(T, Adv(r2), <<>>, "while"), LAMBDA r3 :
    Try(expect_token(T, r3, "END", "Expected 'end' after while block", FALSE, TRUE, FALSE),
        LAMBDA r4 : Return(r4, WhileStatement(r1.node, r3.node))))))

\* one parameter "IDENT : TYPE" of Parser.parse_function_parameters
ParseParameter(T, P, message) ==
    Try(expect_token(T, P, "IDENT", message, TRUE, FALSE, TRUE), LAMBDA r1 :
    Try(expect_token(T, r1, "COLON", "Expected colon ':' after identifier",
                     TRUE, FALSE, TRUE), LAMBDA r2 :
    Try(expect_token(T, r2, "TYPE", "Expected type after ':'", TRUE, FALSE, TRUE),
        LAMBDA r3 :
        Return(r3, FunctionParameter(Cur(T, r1.pos).literal, Cur(T, r3.pos).literal)))))

RECURSIVE ParameterLoop(_, _, _)
\* the while loop of Parser.parse_function_parameters
ParameterLoop(T, P, params) ==
    IF peek_token(T, P).type = "COMMA"
    THEN Try(ParseParameter(T, Adv(P), "Expected identifier after ','"),
             LAMBDA r : ParameterLoop(T, r, Append(params, r.node)))
    ELSE Return(P, params)

\* Parser.parse_function_parameters
parse_function_parameters(T, P) ==
    IF peek_token(T, P).type = "RPAREN" THEN Return(Adv(P), <<>>)
    ELSE
    Try(ParseParameter(T, P, "Expected an identifier after '('"), LAMBDA r1 :
    Try(ParameterLoop(T, r1, <<r1.node>>), LAMBDA r2 :
    Try(expect_token(T, r2, "RPAREN", "Expected right parenthesis ')'", TRUE, FALSE, TRUE),
        LAMBDA r3 : Return(r3, r2.node))))

\* Parser.parse_function_statement
parse_function_statement(T, P) ==
    Try(expect_token(T, P, "IDENT", "Expected identifier after 'def'", TRUE, FALSE, TRUE),
        LAMBDA r1 :
    Try(expect_token(T, r1, "LPAREN", "Expected left parenthesis '('", TRUE, FALSE, TRUE),
        LAMBDA r2 :
    Try(parse_function_parameters(T, r2), LAMBDA r3 :
    Try(expect_token(T, r3, "ARROW", "Expected an arrow '->'", TRUE, FALSE, TRUE),
        LAMBDA r4 :
    Try(expect_token(T, r4, "TYPE", "Expected type after '->'", TRUE, FALSE, TRUE),
        LAMBDA r5 :
    Try(expect_token(T, r5, "COLON", "Expected colon ':' after type", TRUE, FALSE, TRUE),
        LAMBDA r6 :
    Try(BodyLoop(T, Adv(r6), <<>>, "def"), LAMBDA r7 :
    Try(expect_token(T, r7, "END", "Expected 'end' keyword after function body",
                     FALSE, TRUE, FALSE), LAMBDA r8 :
        Return(r8, FunctionStatement(IdentifierLiteral(Cur(T, r1.pos).literal), r3.node,
                                     Cur(T, r5.pos).literal, r7.node))))))))))

\* Parser.parse_statement
parse_statement(T, P) ==
    LET tok == Cur(T, P.pos) IN
    IF tok = NoToken THEN Raise(P, "AttributeError")
    ELSE IF tok.type = "IDENT" /\ peek_token(T, P).type \in AssignmentOperators
    THEN parse_assignment_statement(T, P)
    ELSE CASE tok.type = "VAR" -> parse_var_statement(T, P)
           [] tok.type = "DEF" -> parse_function_statement(T, P)
           [] tok.type = "RETURN" -> parse_return_statement(T, P)
           [] tok.type = "IF" -> parse_if_statement(T, P)
           [] tok.type = "WHILE" -> parse_while_statement(T, P)
           [] tok.type = "BREAK" -> parse_break_statement(T, P)
           [] tok.type = "CONTINUE" -> parse_continue_statement(T, P)
           [] tok.type = "IMPORT" -> parse_import_statement(T, P)
           [] OTHER -> parse_expression_statement(T, P)

\* the rest of one pass of the while loop of Parser.parse_program, r being
\* the outcome of parse_statement; P.node is program.statements
ProgramNext(P, r) ==
    IF r.exc = "Hang" THEN [r EXCEPT !.node = P.node]
    ELSE IF r.exc = ""
    THEN [Adv(r) EXCEPT !.node = IF r.node # NoNode THEN Append(P.node, r.node) ELSE P.node]
    ELSE [r EXCEPT !.excs = Append(@, r.exc), !.exc = "", !.node = P.node]

\* One pass through the while loop of Parser.parse_program
ParseProgramPass(T, P) == ProgramNext(P, parse_statement(T, [P EXCEPT !.node = NoNode]))

\* the loop condition of Parser.parse_program
ParseProgramContinues(T, P) ==
    Cur(T, P.pos) # NoToken /\ Cur(T, P.pos).type # "EOF" /\ P.exc = ""

RECURSIVE ParseProgramLoop(_, _)

\* the loop goes on with the state P1 that a pass left, unless the pass did
\* not move Parser.pos forward ("Hang")
ProgramLoopNext(T, P, P1) ==
    IF P1.pos <= P.pos /\ P1.exc = "" THEN Raise(P1, "Hang")
    ELSE ParseProgramLoop(T, P1)

\* the while loop of Parser.parse_program
ParseProgramLoop(T, P) ==
    IF ParseProgramContinues(T, P) THEN ProgramLoopNext(T, P, ParseProgramPass(T, P))
    ELSE P

\* Parser(tokens).parse_program(): the state at return; node = program.statements
parse_program(T) == ParseProgramLoop(T, [ParserInit EXCEPT !.node = <<>>])


-----------------------------------------------------------------------------
(* Compiler state before run_compilation constructs the Compiler.           *)

NoCompiler == [built |-> FALSE]

-----------------------------------------------------------------------------
(* Sources are built from fragments of program text.                        *)

RECURSIVE Concat(_)
Concat(ss) == IF ss = <<>> THEN <<>> ELSE Head(ss) \o Concat(Tail(ss))

\* all texts made of at most n fragments of F
Texts(F, n) == {Concat(fs) : fs \in UNION {[1..k -> F] : k \in 0..n}}

-----------------------------------------------------------------------------
(* The lexer and the sanitizer run on their own: tokenize is stepped one    *)
(* pass of its while loop at a time, then sanitize is applied repeatedly.   *)

MaxLexFragments == 3
MaxPasses == 2

LexFragments ==
    {<<"x">>,
     <<"1">>,
     <<";">>,
     <<" ">>,
     <<"\n">>,
     <<")">>,
     <<"(">>,
     <<"b", "r", "e", "a", "k">>,
     <<"r", "e", "t", "u", "r", "n">>,
     <<"$">>,
     <<".">>}

LexInit ==
    /\ src \in Texts(LexFragments, MaxLexFragments)
    /\ pc = "tokenize"
    /\ lexer = LexerInit(src)
    /\ tokens = <<>>
    /\ passes = 0
    /\ parser = ParserInit
    /\ compiler = NoCompiler
    /\ started = <<>>
    /\ ran = FALSE
    /\ exitCode = <<>>

\* one pass of the while loop of Lexer.tokenize; an exception ends the run
LexPass ==
    /\ pc = "tokenize"
    /\ CurChar(src, lexer.pos) # NoChar
    /\ lexer' = TokenizePass(src, lexer)
    /\ pc' = IF lexer'.exc # "" THEN "raised" ELSE "tokenize"
    /\ UNCHANGED <<src, tokens, passes, parser, compiler, started, ran, exitCode>>

\* the loop ends: EOF is appended and the token list returned
LexEOF ==
    /\ pc = "tokenize"
    /\ CurChar(src, lexer.pos) = NoChar
    /\ lexer' = TokenizeEOF(lexer)
    /\ tokens' = lexer'.toks
    /\ pc' = "sanitize"
    /\ UNCHANGED <<src, passes, parser, compiler, started, ran, exitCode>>

\* tokens = sanitize(tokens)
Sanitize ==
    /\ pc = "sanitize"
    /\ passes < MaxPasses
    /\ tokens' = sanitize(tokens)
    /\ passes' = passes + 1
    /\ UNCHANGED <<pc, src, lexer, parser, compiler, started, ran, exitCode>>

LexNext == LexPass \/ LexEOF \/ Sanitize

SpecLex == LexInit /\ [][LexNext]_vars


-----------------------------------------------------------------------------
(* Properties of the token stream.                                          *)

\* every line break and the end of input is preceded by a semicolon
SemicolonTerminated(toks) ==
    \A i \in 2..Len(toks) :
        (toks[i].type = "EOF" \/ toks[i - 1].pe.ln # toks[i].ps.ln)
            => toks[i - 1].type = "SEMICOLON"

\* C8: ASI idempotence - applying sanitize to a stream that sanitize returned
\* gives back the same stream (same tokens, same positions, same order), and
\* a stream in which every line and the input already end in `;` is returned
\* unchanged by the first application.
C8_ASIIdempotence ==
    [][(pc = "sanitize" /\ (passes >= 1 \/ SemicolonTerminated(tokens)))
            => tokens' = tokens]_vars

\* sanitize has been applied twice to a stream it had to add semicolons to
C8_Witness ==
    /\ pc = "sanitize"
    /\ passes = 2
    /\ Len(tokens) > Len(lexer.toks)
    /\ \E i \in 1..Len(tokens) : tokens[i].type \in {"BREAK", "RETURN"}

Monotone(toks) ==
    \A i \in 1..(Len(toks) - 1) : toks[i].pe.idx <= toks[i + 1].ps.idx

\* C9: position monotonicity - in the stream built by tokenize and in the
\* stream rewritten by sanitize, each token ends at or before the byte index
\* where the next token starts.
C9_PositionMonotonicity == Monotone(lexer.toks) /\ Monotone(tokens)

\* the part of C9 about tokenize alone
C9_LexerMonotone == Monotone(lexer.toks)


-----------------------------------------------------------------------------
(* The front end run on its own, as its two callers run it:                 *)
(* run_lexical_analysis + run_parsing (tokenize, sanitize, parse_program)   *)
(* and visit_import_statement (tokenize, parse_program).                    *)

MaxParseFragments == 3

ParseFragments ==
    {<<"x">>,
     <<"(", "1", ")">>,
     <<";">>,
     <<"=">>,
     <<"+">>,
     <<"i", "f", " ", "x", ":">>,
     <<"e", "l", "s", "e", ":">>,
     <<"e", "l", "i", "f", " ", "x", ":">>,
     <<"e", "n", "d">>,
     <<"w", "h", "i", "l", "e", " ", "x", ":">>,
     <<"d", "e", "f", " ", "f", "(", "a", ":", " ", "i", "n", "t", ")", " ", "-", ">", " ", "i", "n", "t", ":">>,
     <<"v", "a", "r", " ", "x", ":", " ", "i", "n", "t">>,
     <<"r", "e", "t", "u", "r", "n">>,
     <<",">>}

\* fragments are separated by one blank
Spaced(F) == {f \o <<" ">> : f \in F}

FrontEndIdle ==
    /\ lexer = LexerInit(<<>>)
    /\ tokens = <<>>
    /\ passes = 0
    /\ parser = ParserInit
    /\ compiler = NoCompiler
    /\ started = <<>>
    /\ ran = FALSE
    /\ exitCode = <<>>

ParseInit ==
    /\ src \in Texts(Spaced(ParseFragments), MaxParseFragments)
    /\ pc \in {"main", "import"}
    /\ FrontEndIdle

\* Lexer(src).tokenize(), followed by sanitize when the main file is read
FrontEndLex ==
    /\ pc \in {"main", "import"}
    /\ lexer' = tokenize(src)
    /\ tokens' = IF lexer'.exc # "" THEN <<>>
                 ELSE IF pc = "main" THEN sanitize(lexer'.toks) ELSE lexer'.toks
    /\ passes' = IF pc = "main" /\ lexer'.exc = "" THEN 1 ELSE 0
    /\ pc' = IF lexer'.exc # "" THEN "raised" ELSE "parse"
    /\ UNCHANGED <<src, parser, compiler, started, ran, exitCode>>

\* Parser(tokens).parse_program()
FrontEndParse ==
    /\ pc = "parse"
    /\ parser' = parse_program(tokens)
    /\ pc' = "parsed"
    /\ UNCHANGED <<src, lexer, tokens, passes, compiler, started, ran, exitCode>>

ParseNext == FrontEndLex \/ FrontEndParse

SpecParse == ParseInit /\ [][ParseNext]_vars


-----------------------------------------------------------------------------
(* The sentences of the source grammar: program := stmt*, with the          *)
(* statement forms var, assign, func, return, if, while, break, continue,   *)
(* import and expr_stmt; a call's callee is an identifier.  A recogniser    *)
(* G...(T, i) returns the index after the phrase that starts at T[i], or 0  *)
(* when no such phrase starts there.                                        *)

TypeAt(T, i) == IF i >= 1 /\ i <= Len(T) THEN T[i].type ELSE "None"

BinaryOperatorTypes ==
    {"PLUS", "MINUS", "ASTERISK", "SLASH", "MODULUS", "POW",
     "EQ_EQ", "NOT_EQ", "LT", "GT", "LT_EQ", "GT_EQ"}

\* i if the token before i exists and T[i] has the given type, else 0
Then(T, i, type) == IF i > 0 /\ TypeAt(T, i) = type THEN i + 1 ELSE 0

RECURSIVE GExpr(_, _), GUnary(_, _), GPrimary(_, _), GArgs(_, _)

\* args := expr (',' expr)*
GArgs(T, i) ==
    LET j == GExpr(T, i)
    IN  IF j = 0 THEN 0
        ELSE IF TypeAt(T, j) = "COMMA" THEN GArgs(T, j + 1) ELSE j

GPrimary(T, i) ==
    CASE TypeAt(T, i) = "IDENT" ->
            IF TypeAt(T, i + 1) # "LPAREN" THEN i + 1
            ELSE IF TypeAt(T, i + 2) = "RPAREN" THEN i + 3
            ELSE Then(T, GArgs(T, i + 2), "RPAREN")
      [] TypeAt(T, i) \in {"INT", "FLOAT", "STRING", "TRUE", "FALSE"} -> i + 1
      [] TypeAt(T, i) = "LPAREN" -> Then(T, GExpr(T, i + 1), "RPAREN")
      [] OTHER -> 0

GUnary(T, i) ==
    IF TypeAt(T, i) \in {"MINUS", "NOT"} THEN GUnary(T, i + 1) ELSE GPrimary(T, i)

GExpr(T, i) ==
    LET j == GUnary(T, i)
    IN  IF j = 0 THEN 0
        ELSE IF TypeAt(T, j) \in BinaryOperatorTypes THEN GExpr(T, j + 1) ELSE j

\* TYPE := 'int' | 'float' | 'bool' | 'str' | 'void'
GType(T, i) ==
    IF TypeAt(T, i) = "TYPE" /\ T[i].literal \in {"int", "float", "bool", "str", "void"}
    THEN i + 1 ELSE 0

RECURSIVE GParams(_, _)
\* params := param (',' param)*, param := IDENT ':' TYPE
GParams(T, i) ==
    LET c == Then(T, Then(T, i, "IDENT"), "COLON")
        j == IF c = 0 THEN 0 ELSE GType(T, c)
    IN  IF j = 0 THEN 0
        ELSE IF TypeAt(T, j) = "COMMA" THEN GParams(T, j + 1) ELSE j

RECURSIVE GStmt(_, _), GStmts(_, _), GIfTail(_, _)

\* stmt* : statements up to a token that cannot start one
GStmts(T, i) ==
    IF TypeAt(T, i) \in {"END", "ELIF", "ELSE", "EOF", "None"} THEN i
    ELSE LET j == GStmt(T, i) IN IF j = 0 THEN 0 ELSE GStmts(T, j)

\* ('elif' expr ':' stmt*)* ('else' ':' stmt*)? 'end'
GIfTail(T, i) ==
    CASE TypeAt(T, i) = "ELIF" ->
            LET c == Then(T, GExpr(T, i + 1), "COLON")
                j == IF c = 0 THEN 0 ELSE GStmts(T, c)
            IN  IF j = 0 THEN 0 ELSE GIfTail(T, j)
      [] TypeAt(T, i) = "ELSE" ->
            LET c == Then(T, i + 1, "COLON")
            IN  IF c = 0 THEN 0 ELSE Then(T, GStmts(T, c), "END")
      [] OTHER -> Then(T, i, "END")

GStmt(T, i) ==
    CASE TypeAt(T, i) = "IDENT" /\ TypeAt(T, i + 1) \in AssignmentOperators ->
            Then(T, GExpr(T, i + 2), "SEMICOLON")
      [] TypeAt(T, i) = "VAR" ->
            LET c == Then(T, Then(T, i + 1, "IDENT"), "COLON")
                j == IF c = 0 THEN 0 ELSE GType(T, c)
            IN  IF j = 0 THEN 0
                ELSE IF TypeAt(T, j) = "EQ" THEN Then(T, GExpr(T, j + 1), "SEMICOLON")
                ELSE Then(T, j, "SEMICOLON")
      [] TypeAt(T, i) = "DEF" ->
            LET o == Then(T, Then(T, i + 1, "IDENT"), "LPAREN")
                q == IF o = 0 THEN 0
                     ELSE IF TypeAt(T, o) = "RPAREN" THEN o ELSE GParams(T, o)
                a == Then(T, Then(T, q, "RPAREN"), "ARROW")
                c == IF a = 0 THEN 0 ELSE Then(T, GType(T, a), "COLON")
            IN  IF c = 0 THEN 0 ELSE Then(T, GStmts(T, c), "END")
      [] TypeAt(T, i) = "RETURN" -> Then(T, GExpr(T, i + 1), "SEMICOLON")
      [] TypeAt(T, i) = "IF" ->
            LET c == Then(T, GExpr(T, i + 1), "COLON")
                j == IF c = 0 THEN 0 ELSE GStmts(T, c)
            IN  IF j = 0 THEN 0 ELSE GIfTail(T, j)
      [] TypeAt(T, i) = "WHILE" ->
            LET c == Then(T, GExpr(T, i + 1), "COLON")
            IN  IF c = 0 THEN 0 ELSE Then(T, GStmts(T, c), "END")
      [] TypeAt(T, i) \in {"BREAK", "CONTINUE"} -> Then(T, i + 1, "SEMICOLON")
      [] TypeAt(T, i) = "IMPORT" -> Then(T, Then(T, i + 1, "STRING"), "SEMICOLON")
      [] OTHER -> Then(T, GExpr(T, i), "SEMICOLON")

\* T is a sentence: a program followed by the EOF token
Sentence(T) == LET j == GStmts(T, 1) IN j > 0 /\ j = Len(T) /\ TypeAt(T, j) = "EOF"

\* the parser's answer on the tokens it was given
Accepted == pc = "parsed" /\ parser.exc = "" /\ Len(parser.errs) = 0

\* C6: parser totality - parse_program terminates (no pass of the top-level
\* loop or of a block-body loop leaves the cursor where it was without
\* exiting) and returns a Program, and when the tokens are not a sentence of
\* the grammar at least one error has been recorded.
C6_ParserTotality ==
    pc = "parsed" =>
        /\ parser.exc = ""
        /\ (~Sentence(tokens) => Len(parser.errs) >= 1)

\* the part of C6 about termination and progress
C6_Terminates == pc = "parsed" => parser.exc = ""

\* sentences are parsed without error
C6_SentencesAccepted == (pc = "parsed" /\ Sentence(tokens)) => Accepted


-----------------------------------------------------------------------------
(* Chains of binary operators, a op1 b op2 c ..., sent through the front    *)
(* end of the main file.                                                    *)

MaxChain == 2

BinaryOperators ==
    {<<"+">>, <<"-">>, <<"*">>, <<"/">>, <<"%">>, <<"*", "*">>,
     <<"=", "=">>, <<"!", "=">>, <<"<">>, <<">">>, <<"<", "=">>, <<">", "=">>}

OperandNames == <<"a", "b", "c", "d", "e", "f">>

RECURSIVE ChainText(_, _)
\* the text  op_i operand_(i+1) ... of a chain
ChainText(ops, i) ==
    IF i > Len(ops) THEN <<";">>
    ELSE <<" ">> \o ops[i] \o <<" ", OperandNames[i + 1]>> \o ChainText(ops, i + 1)

Chains == UNION {[1..k -> BinaryOperators] : k \in 1..MaxChain}

PrecInit ==
    /\ src \in {<<OperandNames[1]>> \o ChainText(ops, 1) : ops \in Chains}
    /\ pc = "main"
    /\ FrontEndIdle

SpecPrec == PrecInit /\ [][ParseNext]_vars

\* the precedence table: EQUALS, LESSGREATER, SUM, PRODUCT, low to high
Rank(op) ==
    CASE op \in {"==", "!="} -> 1
      [] op \in {"<", ">", "<=", ">="} -> 2
      [] op \in {"+", "-"} -> 3
      [] op \in {"*", "/", "%"} -> 4

\* a chain of exactly two operators has been parsed
TwoOperatorChainParsed == pc = "parsed" /\ Len(tokens) = 7

LeftGrouped ==
    InfixExpression(InfixExpression(IdentifierLiteral("a"), tokens[2].literal,
                                    IdentifierLiteral("b")),
                    tokens[4].literal, IdentifierLiteral("c"))

RightGrouped ==
    InfixExpression(IdentifierLiteral("a"), tokens[2].literal,
                    InfixExpression(IdentifierLiteral("b"), tokens[4].literal,
                                    IdentifierLiteral("c")))

\* C7: precedence - for binary operators op1, op2 other than `**`,
\* `a op1 b op2 c` parses as `(a op1 b) op2 c` exactly when
\* prec(op1) >= prec(op2) and as `a op1 (b op2 c)` otherwise;
\* `a ** b ** c` parses as `a ** (b ** c)`.
C7_Precedence ==
    TwoOperatorChainParsed =>
        LET op1 == tokens[2].literal
            op2 == tokens[4].literal
            tree == parser.node[1].expr
        IN  /\ Len(parser.errs) = 0
            /\ Len(parser.node) = 1
            /\ (op1 # "**" /\ op2 # "**") =>
                    /\ (tree = LeftGrouped) <=> (Rank(op1) >= Rank(op2))
                    /\ (tree = RightGrouped) <=> (Rank(op1) < Rank(op2))
            /\ (op1 = "**" /\ op2 = "**") => tree = RightGrouped

\* `a + b * c` has been parsed, and grouped to the right
C7_Witness ==
    /\ TwoOperatorChainParsed
    /\ tokens[2].literal = "+"
    /\ tokens[4].literal = "*"
    /\ parser.node[1].expr = RightGrouped


-----------------------------------------------------------------------------
(* Environment.  Frames live in the sequence frames of the Compiler state;  *)
(* a frame is [parent, records], parent = 0 for None, and records maps a    *)
(* name to the pair [value, type] that define stored.                       *)
(* IR types are "i64", "double", "i1", "i8*", "void", and "None" for an     *)
(* absent type.  IR values are kept by kind: a Function by its name, a      *)
(* stack slot (alloca) by its number and the function it was emitted in.    *)

None == [none |-> TRUE]

NoRecords == [n \in {} |-> None]

\* Environment(parent = p)
Environment(p) == [parent |-> p, records |-> NoRecords]

Function(name) == [kind |-> "Function", name |-> name]
GlobalVariable(name) == [kind |-> "GlobalVariable", name |-> name]
Alloca(id, function) == [kind |-> "Alloca", id |-> id, function |-> function]

\* Environment.define on frame e
define(frames, e, name, value, type) ==
    [frames EXCEPT ![e].records =
        [n \in DOMAIN @ \cup {name} |->
            IF n = name THEN [value |-> value, type |-> type] ELSE @[n]]]

RECURSIVE resolve(_, _, _)
\* Environment.resolve from frame e
resolve(frames, e, name) ==
    IF name \in DOMAIN frames[e].records THEN frames[e].records[name]
    ELSE IF frames[e].parent # 0 THEN resolve(frames, frames[e].parent, name)
    ELSE None

\* a lookup that reads the records of the frame itself only
LookupInFrameOnly(frames, e, name) ==
    IF name \in DOMAIN frames[e].records THEN frames[e].records[name] ELSE None

\* Environment.lookup
lookup(frames, e, name) == resolve(frames, e, name)

\* Compiler.type_map
type_map(t) ==
    CASE t = "int" -> "i64"
      [] t = "float" -> "double"
      [] t = "bool" -> "i1"
      [] t = "str" -> "i8*"
      [] t = "void" -> "void"

IsIntType(t) == t \in {"i64", "i1"}
IsDoubleType(t) == t = "double"
IsPointerType(t) == t \in {"i8*", "i1*"}

\* Compiler.initialize_builtins on the global frame
GlobalFrame ==
    LET f0 == <<Environment(0)>>
        f1 == define(f0, 1, "print", Function("printf"), "i64")
        f2 == define(f1, 1, "_alloc", Function("alloc"), "i8*")
        f3 == define(f2, 1, "_memcpy", Function("memcpy"), "i8*")
        f4 == define(f3, 1, "_strcat", Function("_strcat"), "i8*")
        f5 == define(f4, 1, "pow", Function("pow"), "double")
        f6 == define(f5, 1, "len", Function("strlen"), "i64")
        f7 == define(f6, 1, "true", GlobalVariable("true"), "i1*")
    IN  define(f7, 1, "false", GlobalVariable("false"), "i1*")

\* Compiler.__init__ ; todo is the work left to visit_program, most urgent
\* first, ir the instructions emitted so far, in order, block the basic
\* block the builder stands in and blocks the number of blocks made
\* without a number of their own
CompilerInit ==
    [built |-> TRUE, frames |-> GlobalFrame, env |-> 1, builder |-> "None",
     counter |-> 0, slots |-> 0, breakpoints |-> <<>>, continues |-> <<>>,
     pallets |-> {}, warnings |-> 0, todo |-> <<>>, exc |-> "", ir |-> <<>>,
     block |-> <<"None", 0>>, blocks |-> 0]

-----------------------------------------------------------------------------
(* Instructions.  C.ir is the sequence of the instructions that the code    *)
(* has its builder emit, each with the basic block the builder stood in;    *)
(* the checks that the builder makes of an instruction are not part of the  *)
(* source and are not modelled.  An instruction is kept by the name of the  *)
(* builder's method, with the types that matter; of a value its type only.  *)

Ins(op) == [op |-> op]

\* builder.alloca(typ), builder.store(value, ptr), builder.call(func, args)
\* and builder.ret(value)
AllocaInstr(typ) == [op |-> "alloca", type |-> typ]
Store(value, pointee) == [op |-> "store", value |-> value, pointee |-> pointee]
Call(func) == [op |-> "call", func |-> func]
Ret(value) == [op |-> "ret", value |-> value]

\* the basic block append_basic_block(f"{name}_{n}") makes; n tells apart
\* the blocks of one name
Block(name, n) == <<name, n>>

\* builder.branch(target) and builder.cbranch(test, truebr, falsebr)
Branch(target) == [op |-> "branch", target |-> target]
CBranch(truebr, falsebr) == [op |-> "cbranch", truebr |-> truebr, falsebr |-> falsebr]

Terminators == {"ret", "branch", "cbranch"}

\* the builder of C emits the instructions ins into its block
Emit(C, ins) ==
    [C EXCEPT !.ir = @ \o [i \in 1..Len(ins) |-> [block |-> C.block, ins |-> ins[i]]]]

\* block.is_terminated
Terminated(C, block) ==
    \E i \in 1..Len(C.ir) : C.ir[i].block = block /\ C.ir[i].ins.op \in Terminators

\* the type of builder.load(ptr) for the value a name is bound to
LoadType(b) ==
    CASE b.value.kind = "Alloca" -> b.type
      [] b.value.kind = "GlobalVariable" -> "i1"
      [] b.value.kind = "Function" -> "function"

-----------------------------------------------------------------------------
(* Lowering of expressions.  The result of resolve_value is                 *)
(* [exc, type, vtype, ins]: the exception raised, or the IR type returned   *)
(* ("None" with the value None) and vtype, the IR type of the value         *)
(* returned with it; ins are the instructions emitted on the way, also on   *)
(* the way to an exception.  A builder call is kept as [vtype, ins].        *)
(* Expressions change neither the environment nor the loop stacks.          *)

Valued(t, v, ins) == [exc |-> "", type |-> t, vtype |-> v, ins |-> ins]
Raised(e, ins) == [exc |-> e, type |-> "None", vtype |-> "None", ins |-> ins]
Instr(v, ins) == [vtype |-> v, ins |-> ins]

ComparisonOperators == {"<", ">", "<=", ">=", "==", "!="}

\* the result type chosen by Compiler.visit_infix_expression
InfixType(operator, lt, rt) ==
    IF IsIntType(lt) /\ IsIntType(rt)
    THEN IF operator \in ComparisonOperators THEN "i1" ELSE "i64"
    ELSE IF (IsDoubleType(lt) \/ IsIntType(lt)) /\ (IsDoubleType(rt) \/ IsIntType(rt))
    THEN IF operator \in ComparisonOperators THEN "i1" ELSE "double"
    ELSE IF IsPointerType(lt) /\ IsPointerType(rt) /\ operator = "+"
    THEN "i8*"
    ELSE "None"

\* Compiler.builtin_pow: the call of pow, declared to return a double
builtin_pow(C, left_value, right_value) ==
    LET b == lookup(C.frames, C.env, "pow")
    IN  Instr(b.type,
              (IF IsIntType(left_value) THEN <<Ins("sitofp")>> ELSE <<>>)
              \o (IF IsIntType(right_value) THEN <<Ins("sitofp")>> ELSE <<>>)
              \o <<Call(b.value)>>)

\* Compiler.builtin_len
builtin_len(C, string) ==
    LET b == lookup(C.frames, C.env, "len")
    IN  Instr(b.type, <<Call(b.value)>>)

\* Compiler.builtin_print; params are the arguments as [vtype, load], load
\* for an argument that is a LoadInstr
builtin_print(C, params, return_type) ==
    LET b == lookup(C.frames, C.env, "print")
    IN  Instr(b.type,
              <<AllocaInstr(return_type), Store(params[1].vtype, return_type)>>
              \o (IF params[1].load THEN <<Ins("load")>> ELSE <<>>)
              \o <<Ins("bitcast"), Call(b.value)>>)

\* Compiler.handle_string_concatenation
handle_string_concatenation(C, left_value, right_value) ==
    LET b == lookup(C.frames, C.env, "_strcat")
    IN  Instr(b.type, <<Ins("bitcast"), Ins("bitcast"), Call(b.value)>>)

\* Compiler.handle_int_operations: the instruction returned, None without
\* an instruction for any other operator
handle_int_operations(C, operator, left_value, right_value) ==
    CASE operator = "+" -> Instr(left_value, <<Ins("add")>>)
      [] operator = "-" -> Instr(left_value, <<Ins("sub")>>)
      [] operator = "*" -> Instr(left_value, <<Ins("mul")>>)
      [] operator = "/" -> Instr(left_value, <<Ins("sdiv")>>)
      [] operator = "%" -> Instr(left_value, <<Ins("srem")>>)
      [] operator = "**" -> builtin_pow(C, left_value, right_value)
      [] operator \in ComparisonOperators -> Instr("i1", <<Ins("icmp_signed")>>)
      [] OTHER -> Instr("None", <<>>)

\* Compiler.handle_float_operations: the instruction returned
handle_float_operations(C, operator, left_value, right_value) ==
    CASE operator = "+" -> Instr(left_value, <<Ins("fadd")>>)
      [] operator = "-" -> Instr(left_value, <<Ins("fsub")>>)
      [] operator = "*" -> Instr(left_value, <<Ins("fmul")>>)
      [] operator = "/" -> Instr(left_value, <<Ins("fdiv")>>)
      [] operator = "%" -> Instr(left_value, <<Ins("frem")>>)
      [] operator = "**" -> builtin_pow(C, left_value, right_value)
      [] operator \in ComparisonOperators -> Instr("i1", <<Ins("fcmp_ordered")>>)
      [] OTHER -> Instr("None", <<>>)

\* the instructions after the operands with which a conversion comes first
After(conversion, instr) == Instr(instr.vtype, conversion \o instr.ins)

\* the value built by Compiler.visit_infix_expression from operands of the
\* reported types lt, rt and of the value types lv, rv
InfixValue(C, operator, lt, rt, lv, rv) ==
    IF IsIntType(lt) /\ IsIntType(rt)
    THEN handle_int_operations(C, operator, lv, rv)
    ELSE IF IsDoubleType(lt) /\ IsDoubleType(rt)
    THEN handle_float_operations(C, operator, lv, rv)
    ELSE IF IsIntType(lt) /\ IsDoubleType(rt)
    THEN After(<<Ins("sitofp")>>, handle_float_operations(C, operator, "double", rv))
    ELSE IF IsDoubleType(lt) /\ IsIntType(rt)
    THEN After(<<Ins("sitofp")>>, handle_float_operations(C, operator, lv, "double"))
    ELSE IF IsPointerType(lt) /\ IsPointerType(rt) /\ operator = "+"
    THEN handle_string_concatenation(C, lv, rv)
    ELSE Instr("None", <<>>)

\* the result type chosen by Compiler.visit_prefix_expression
PrefixType(rt) ==
    IF IsDoubleType(rt) THEN "double" ELSE IF IsIntType(rt) THEN "i64" ELSE "None"

\* the value built by Compiler.visit_prefix_expression from an operand of
\* the reported type rt and of the value type rv
PrefixValue(operator, rt, rv) ==
    IF IsDoubleType(rt)
    THEN CASE operator = "-" -> Instr(rv, <<Ins("fmul")>>)
           [] operator = "not" -> Instr("i1", <<Ins("fcmp_ordered")>>)
           [] OTHER -> Instr("None", <<>>)
    ELSE IF IsIntType(rt)
    THEN CASE operator = "-" -> Instr(rv, <<Ins("mul")>>)
           [] operator = "not" -> Instr("i1", <<Ins("icmp_signed")>>)
           [] OTHER -> Instr("None", <<>>)
    ELSE Instr("None", <<>>)

\* Compiler.convert_string after the decoding: the copy of the bytes to the
\* heap
ConvertedString(C) ==
    LET alloc_fn == lookup(C.frames, C.env, "_alloc")
        memcpy_fn == lookup(C.frames, C.env, "_memcpy")
    IN  Valued("i8*", alloc_fn.type,
               <<Call(alloc_fn.value), AllocaInstr("array"), Store("array", "array"),
                 Ins("bitcast"), Ins("bitcast"), Call(memcpy_fn.value)>>)

RECURSIVE resolve_value(_, _), ResolveArguments(_, _, _)

\* the arguments from the one lowered to p on, rest being the arguments
\* after it
WithArgument(param, p, rest) ==
    [exc |-> rest.exc,
     types |-> IF rest.exc # "" THEN <<>> ELSE <<p.type>> \o rest.types,
     args |-> IF rest.exc # "" THEN <<>>
              ELSE <<[vtype |-> p.vtype, load |-> param.type = "IdentifierLiteral"]>>
                   \o rest.args,
     ins |-> p.ins \o rest.ins]

\* one pass of the argument loop, with the argument lowered to p
ArgumentLowered(C, params, i, p) ==
    IF p.exc # "" THEN [exc |-> p.exc, types |-> <<>>, args |-> <<>>, ins |-> p.ins]
    ELSE WithArgument(params[i], p, ResolveArguments(C, params, i + 1))

\* the argument loop of visit_call_expression: the types and the values of
\* the arguments, or the exception
ResolveArguments(C, params, i) ==
    IF i > Len(params) THEN [exc |-> "", types |-> <<>>, args |-> <<>>, ins |-> <<>>]
    ELSE ArgumentLowered(C, params, i, resolve_value(C, params[i]))

\* the value of the builder call instr, of the reported type typ, after
\* the instructions of before
Built(typ, before, instr) == Valued(typ, instr.vtype, before.ins \o instr.ins)

\* Compiler.visit_call_expression after the argument loop
CallWith(C, node, a) ==
    IF a.exc # "" THEN Raised(a.exc, a.ins)
    ELSE IF node.function.type = "BooleanLiteral" THEN Raised("TypeError", a.ins)
    ELSE CASE node.function.value = "print" ->
                IF Len(a.types) = 0 THEN Raised("IndexError", a.ins)
                ELSE Built("i64", a, builtin_print(C, a.args, a.types[1]))
           [] node.function.value = "pow" ->
                IF Len(a.types) < 2 THEN Raised("IndexError", a.ins)
                ELSE Built("double", a, builtin_pow(C, a.args[1].vtype, a.args[2].vtype))
           [] node.function.value = "len" ->
                IF Len(a.types) = 0 THEN Raised("IndexError", a.ins)
                ELSE Built("i64", a, builtin_len(C, a.args[1].vtype))
           [] OTHER ->
                LET b == lookup(C.frames, C.env, node.function.value)
                IN  IF b = None THEN Raised("TypeError", a.ins)
                    ELSE Valued(b.type, b.type, a.ins \o <<Call(b.value)>>)

\* Compiler.visit_call_expression
visit_call_expression(C, node) ==
    IF node.function.type \in {"InfixExpression", "PrefixExpression", "CallExpression"}
    THEN Raised("AttributeError", <<>>)       \* node.function.value
    ELSE CallWith(C, node, ResolveArguments(C, node.args, 1))

\* Compiler.visit_prefix_expression after its operand
PrefixOf(operator, r) ==
    IF r.exc # "" THEN r
    ELSE Built(PrefixType(r.type), r, PrefixValue(operator, r.type, r.vtype))

\* Compiler.visit_prefix_expression
visit_prefix_expression(C, node) ==
    PrefixOf(node.operator, resolve_value(C, node.right_node))

\* Compiler.visit_infix_expression after its two operands
InfixOf(C, operator, l, r) ==
    IF r.exc # "" THEN Raised(r.exc, l.ins \o r.ins)
    ELSE Built(InfixType(operator, l.type, r.type), [ins |-> l.ins \o r.ins],
               InfixValue(C, operator, l.type, r.type, l.vtype, r.vtype))

\* Compiler.visit_infix_expression after its left operand
InfixLeft(C, node, l) ==
    IF l.exc # "" THEN l
    ELSE InfixOf(C, node.operator, l, resolve_value(C, node.right_node))

\* Compiler.visit_infix_expression
visit_infix_expression(C, node) ==
    InfixLeft(C, node, resolve_value(C, node.left_node))

\* Compiler.resolve_value
resolve_value(C, node) ==
    CASE node.type = "IntegerLiteral" -> Valued("i64", "i64", <<>>)
      [] node.type = "FloatLiteral" -> Valued("double", "double", <<>>)
      [] node.type = "IdentifierLiteral" ->
            LET b == lookup(C.frames, C.env, node.value)
            IN  IF b = None THEN Raised("TypeError", <<>>)
                ELSE Valued(b.type, LoadType(b), <<Ins("load")>>)
      [] node.type = "BooleanLiteral" -> Valued("i1", "i1", <<>>)
      [] node.type = "StringLiteral" -> ConvertedString(C)
      [] node.type = "InfixExpression" -> visit_infix_expression(C, node)
      [] node.type = "CallExpression" -> visit_call_expression(C, node)
      [] node.type = "PrefixExpression" -> visit_prefix_expression(C, node)

-----------------------------------------------------------------------------
(* Lowering of statements.  Compiler.compile recurses into statement        *)
(* bodies; here the statements still to be compiled are kept in C.todo,     *)
(* together with markers for the code that follows a body in its visitor.   *)
(* An exception ends lowering: it is kept in C.exc.                         *)

Fail(C, e) == [C EXCEPT !.exc = e]

Statements(stmts) == [i \in 1..Len(stmts) |-> [k |-> "statement", node |-> stmts[i]]]

\* the files that can be opened: absolute path -> text
Files ==
    [p \in {"/cwd/lib", "/cwd/mid"} |->
        IF p = "/cwd/lib"
        THEN <<"v", "a", "r", " ", "k", ":", " ", "i", "n", "t", " ", "=", " ", "1", ";">>
        ELSE <<"i", "m", "p", "o", "r", "t", " ", "\"", "l", "i", "b", "\"", ";">>]

\* os.path.abspath(path): the path is joined to the working directory and
\* normalised; of the paths that the sources spell, "./lib" is the one with
\* a component that normalisation removes
abspath(path) ==
    IF path = "./lib" THEN "/cwd/lib" ELSE "/cwd/" \o path

\* the compiler after an expression lowered to r: its instructions are
\* emitted, and its exception goes on up
Lowered(C, r) == IF r.exc # "" THEN Fail(Emit(C, r.ins), r.exc) ELSE Emit(C, r.ins)

\* Compiler.visit_expression_statement: compile(node.expr) dispatches only
\* on infix, call and prefix expressions, and drops what they return
visit_expression_statement(C, node) ==
    IF node.expr.type \in {"InfixExpression", "CallExpression", "PrefixExpression"}
    THEN Lowered(C, resolve_value(C, node.expr))
    ELSE C

\* Compiler.visit_if_statement after the test, up to the bodies.  else_body is a list, never
\* None, so the builder's if_else makes three blocks, branches on the test
\* and stands in the first of them
IfTested(C, node, test) ==
    LET n == C.blocks + 1
        bbif == Block("if", n)
        bbelse == Block("else", n)
        bbend == Block("endif", n)
    IN  IF test.exc # "" THEN Lowered(C, test)
        ELSE [Emit(C, test.ins \o <<CBranch(bbif, bbelse)>>)
                EXCEPT !.blocks = n,
                       !.block = bbif,
                       !.todo = Statements(node.body)
                                \o <<[k |-> "end then", bbelse |-> bbelse, bbend |-> bbend]>>
                                \o Statements(node.else_body)
                                \o <<[k |-> "end if", bbend |-> bbend]>>
                                \o @]

\* Compiler.visit_if_statement
visit_if_statement(C, node) == IfTested(C, node, resolve_value(C, node.condition))

\* the end of `with then:` - the builder branches to the end block unless
\* its block is terminated, and stands in the else block
EndThen(C, item) ==
    [(IF Terminated(C, C.block) THEN C ELSE Emit(C, <<Branch(item.bbend)>>))
        EXCEPT !.block = item.bbelse]

\* the end of `with otherwise:` and of if_else
EndIf(C, item) ==
    [(IF Terminated(C, C.block) THEN C ELSE Emit(C, <<Branch(item.bbend)>>))
        EXCEPT !.block = item.bbend]

\* Compiler.visit_while_statement after the test, up to the body; the code that follows
\* the body keeps the locals condition, while_loop_entry and
\* while_loop_otherwise
WhileTested(C, node, test) ==
    LET n == C.counter + 1
        while_loop_entry == Block("while_loop_entry", n)
        while_loop_otherwise == Block("while_loop_otherwise", n)
    IN  IF test.exc # "" THEN Lowered(C, test)
        ELSE [Emit(C, test.ins \o <<CBranch(while_loop_entry, while_loop_otherwise)>>)
                EXCEPT !.counter = n,
                       !.breakpoints = Append(@, while_loop_otherwise),
                       !.continues = Append(@, while_loop_entry),
                       !.block = while_loop_entry,
                       !.todo = Statements(node.body)
                                \o <<[k |-> "end while", condition |-> node.condition,
                                      while_loop_entry |-> while_loop_entry,
                                      while_loop_otherwise |-> while_loop_otherwise]>>
                                \o @]

\* Compiler.visit_while_statement
visit_while_statement(C, node) == WhileTested(C, node, resolve_value(C, node.condition))

\* the second test of the condition and the branch on it
Retested(C, item, test) ==
    IF test.exc # "" THEN Lowered(C, test)
    ELSE [Emit(C, test.ins \o <<CBranch(item.while_loop_entry,
                                        item.while_loop_otherwise)>>)
            EXCEPT !.block = item.while_loop_otherwise]

\* breakpoints.pop() and continues.pop()
PopLoop(C) ==
    IF C.exc # "" THEN C
    ELSE [C EXCEPT !.breakpoints = SubSeq(@, 1, Len(@) - 1),
                   !.continues = SubSeq(@, 1, Len(@) - 1)]

\* the code after the body that leaves the two stacks as they are
EndWhileKeepsStacks(C, item) == Retested(C, item, resolve_value(C, item.condition))

\* Compiler.visit_while_statement after the body
EndWhile(C, item) == PopLoop(Retested(C, item, resolve_value(C, item.condition)))

\* a break that is dropped when there is no loop
BreakIgnoredOutsideLoop(C, node) ==
    IF C.breakpoints # <<>>
    THEN Emit(C, <<Branch(C.breakpoints[Len(C.breakpoints)])>>)
    ELSE C

\* Compiler.visit_break_statement
visit_break_statement(C, node) ==
    IF C.breakpoints # <<>>
    THEN Emit(C, <<Branch(C.breakpoints[Len(C.breakpoints)])>>)
    ELSE Fail(C, "RuntimeError")

\* Compiler.visit_continue_statement
visit_continue_statement(C, node) ==
    IF C.continues # <<>>
    THEN Emit(C, <<Branch(C.continues[Len(C.continues)])>>)
    ELSE Fail(C, "RuntimeError")

\* Compiler.visit_import_statement up to the statements of the pallet
visit_import_statement(C, node) ==
    LET file_path == node.file_path IN
    IF file_path \in C.pallets THEN [C EXCEPT !.warnings = @ + 1]
    ELSE IF abspath(file_path) \notin DOMAIN Files THEN Fail(C, "FileNotFoundError")
    ELSE
    LET l == tokenize(Files[abspath(file_path)]) IN
    IF l.exc # "" THEN Fail(C, l.exc)
    ELSE IF Len(l.errs) > 0 THEN Fail(C, "SystemExit")
    ELSE
    LET p == parse_program(l.toks) IN
    IF Len(p.errs) > 0 THEN Fail(C, "SystemExit")
    ELSE [C EXCEPT !.todo = Statements(p.node)
                            \o <<[k |-> "end import", file_path |-> file_path]>> \o @]

\* Compiler.visit_import_statement after the statements of the pallet
EndImport(C, item) == [C EXCEPT !.pallets = @ \cup {item.file_path}]

DefaultValue(value_type) ==
    CASE value_type = "int" -> IntegerLiteral("0")
      [] value_type = "float" -> FloatLiteral("0.0")
      [] value_type = "bool" -> BooleanLiteral(FALSE)
      [] value_type = "str" -> StringLiteral("")

\* Compiler.visit_var_statement after the value
Declared(C, name, r) ==
    LET b == lookup(C.frames, C.env, name)
    IN  IF r.exc # "" THEN Lowered(C, r)
        ELSE IF b = None
        THEN \* define and allocate a new variable
             [Emit(C, r.ins \o <<AllocaInstr(r.type), Store(r.vtype, r.type)>>)
                EXCEPT !.slots = @ + 1,
                       !.frames = define(@, C.env, name,
                                         Alloca(C.slots + 1, C.builder), r.type)]
        ELSE \* update an existing variable
             Emit(C, r.ins \o <<Store(r.vtype, LoadType(b))>>)

\* Compiler.visit_var_statement
visit_var_statement(C, node) ==
    LET name == node.name.value IN
    IF node.value = NoNode /\ node.value_type \notin {"int", "float", "bool", "str"}
    THEN Fail(C, "TypeError")
    ELSE
    Declared(C, name,
             resolve_value(C, IF node.value = NoNode THEN DefaultValue(node.value_type)
                              ELSE node.value))

RECURSIVE DefineParameters(_, _, _, _, _)
\* the two parameter loops of visit_function_statement: the frames
DefineParameters(frames, e, params, i, C) ==
    IF i > Len(params) THEN frames
    ELSE DefineParameters(
            define(frames, e, params[i].name, Alloca(C.slots + i, C.builder),
                   type_map(params[i].value_type)),
            e, params, i + 1, C)

RECURSIVE StoreParameters(_, _)
\* the first parameter loop of visit_function_statement: the instructions
StoreParameters(params, i) ==
    IF i > Len(params) THEN <<>>
    ELSE LET typ == type_map(params[i].value_type)
         IN  <<AllocaInstr(typ), Store(typ, typ)>> \o StoreParameters(params, i + 1)

\* the function statement lowered without "self.env.define(name, func,
\* return_type)" before the body
FunctionNotVisibleInside(C, node) ==
    LET name == node.name.value
        return_type == type_map(node.return_type)
        child == Len(C.frames) + 1
        n == C.blocks + 1
        B == [C EXCEPT !.builder = name, !.block = Block(name \o "_entry", n)]
    IN  [Emit(B, StoreParameters(node.parameters, 1))
            EXCEPT !.blocks = n,
                   !.env = child,
                   !.slots = @ + Len(node.parameters),
                   !.frames = DefineParameters(Append(C.frames, Environment(C.env)),
                                               child, node.parameters, 1, B),
                   !.todo = Statements(node.body)
                            \o <<[k |-> "end function", name |-> name,
                                  return_type |-> return_type,
                                  previous_env |-> C.env,
                                  previous_builder |-> C.builder,
                                  previous_block |-> C.block]>>
                            \o @]

\* Compiler.visit_function_statement up to the body
visit_function_statement(C, node) ==
    LET name == node.name.value
        return_type == type_map(node.return_type)
        child == Len(C.frames) + 1
        n == C.blocks + 1
        B == [C EXCEPT !.builder = name, !.block = Block(name \o "_entry", n)]
        withParams == DefineParameters(Append(C.frames, Environment(C.env)),
                                       child, node.parameters, 1, B)
    IN  [Emit(B, StoreParameters(node.parameters, 1))
            EXCEPT !.blocks = n,
                   !.env = child,
                   !.slots = @ + Len(node.parameters),
                   !.frames = define(withParams, child, name, Function(name), return_type),
                   !.todo = Statements(node.body)
                            \o <<[k |-> "end function", name |-> name,
                                  return_type |-> return_type,
                                  previous_env |-> C.env,
                                  previous_builder |-> C.builder,
                                  previous_block |-> C.block]>>
                            \o @]

\* the code after the body without "self.env = previous_env"
EndFunctionKeepsEnv(C, item) ==
    [C EXCEPT !.frames = define(@, C.env, item.name,
                                Function(item.name), item.return_type),
              !.builder = item.previous_builder,
              !.block = item.previous_block]

\* Compiler.visit_function_statement after the body; the previous builder
\* stands in the block it stood in
EndFunction(C, item) ==
    [C EXCEPT !.env = item.previous_env,
              !.frames = define(@, item.previous_env, item.name,
                                Function(item.name), item.return_type),
              !.builder = item.previous_builder,
              !.block = item.previous_block]

\* Compiler.visit_return_statement after the value
Returned(C, r) ==
    IF r.exc # "" THEN Lowered(C, r) ELSE Emit(C, r.ins \o <<Ret(r.vtype)>>)

\* Compiler.visit_return_statement
visit_return_statement(C, node) == Returned(C, resolve_value(C, node.return_value))

\* the match on the operator in Compiler.visit_assign_statement: the value
\* to store, from the loaded value, the reported type of the right-hand
\* side and its value
AssignValue(C, operator, orig_value, right_type, right_value) ==
    LET ints == IsIntType(orig_value) /\ IsIntType(right_type)
    IN  CASE operator = "=" -> Instr(right_value, <<>>)
          [] operator = "+=" ->
                IF ints THEN Instr(orig_value, <<Ins("add")>>)
                ELSE IF IsPointerType(orig_value) /\ IsPointerType(right_type)
                THEN handle_string_concatenation(C, orig_value, right_value)
                ELSE Instr(orig_value, <<Ins("fadd")>>)
          [] operator = "-=" -> Instr(orig_value, <<Ins(IF ints THEN "sub" ELSE "fsub")>>)
          [] operator = "*=" -> Instr(orig_value, <<Ins(IF ints THEN "mul" ELSE "fmul")>>)
          [] operator = "/=" -> Instr(orig_value, <<Ins(IF ints THEN "sdiv" ELSE "fdiv")>>)
          [] operator = "%=" -> Instr(orig_value, <<Ins(IF ints THEN "srem" ELSE "frem")>>)
          [] operator = "**=" -> builtin_pow(C, orig_value, right_value)

\* Compiler.visit_assign_statement after the right-hand side, b being the
\* binding of the target
Assigned(C, node, b, r) ==
    IF r.exc # "" THEN Lowered(C, r)
    ELSE
    LET slot == LoadType(b)
        origToFloat == IsIntType(slot) /\ IsDoubleType(r.type)
        orig_value == IF origToFloat THEN "double" ELSE slot
        rightToFloat == IsDoubleType(orig_value) /\ IsIntType(r.type)
        right_value == IF rightToFloat THEN "double" ELSE r.vtype
        E == Emit(C, r.ins \o <<Ins("load")>>
                     \o (IF origToFloat THEN <<Ins("sitofp")>> ELSE <<>>)
                     \o (IF rightToFloat THEN <<Ins("sitofp")>> ELSE <<>>))
    IN  IF node.operator \notin {"=", "+=", "-=", "*=", "/=", "%=", "**="}
        THEN Fail(E, "NotImplementedError")
        ELSE LET value == AssignValue(C, node.operator, orig_value, r.type, right_value)
             IN  Emit(E, value.ins \o <<Store(value.vtype, slot)>>)

\* Compiler.visit_assign_statement
visit_assign_statement(C, node) ==
    IF lookup(C.frames, C.env, node.ident.value) = None THEN Fail(C, "NameError")
    ELSE Assigned(C, node, lookup(C.frames, C.env, node.ident.value),
                  resolve_value(C, node.right_value))

\* Compiler.compile for a statement
compile(C, node) ==
    CASE node.type = "ExpressionStatement" -> visit_expression_statement(C, node)
      [] node.type = "VarStatement" -> visit_var_statement(C, node)
      [] node.type = "FunctionStatement" -> visit_function_statement(C, node)
      [] node.type = "ReturnStatement" -> visit_return_statement(C, node)
      [] node.type = "AssignStatement" -> visit_assign_statement(C, node)
      [] node.type = "IfStatement" -> visit_if_statement(C, node)
      [] node.type = "WhileStatement" -> visit_while_statement(C, node)
      [] node.type = "BreakStatement" -> visit_break_statement(C, node)
      [] node.type = "ContinueStatement" -> visit_continue_statement(C, node)
      [] node.type = "ImportStatement" -> visit_import_statement(C, node)
      [] OTHER -> C

\* Compiler.visit_program up to the statements
visit_program(C, statements) ==
    [C EXCEPT !.builder = ".main",
              !.blocks = @ + 1,
              !.block = Block(".main_entry", C.blocks + 1),
              !.todo = Statements(statements) \o <<[k |-> "end program"]>>]

\* Compiler.visit_program after the statements: the default return value
EndProgram(C) == Emit(C, <<Ret("i64")>>)

\* the next piece of work of the lowering
LowerStep(C) ==
    LET item == Head(C.todo)
        R == [C EXCEPT !.todo = Tail(@)]
    IN  CASE item.k = "statement" -> compile(R, item.node)
          [] item.k = "end function" -> EndFunction(R, item)
          [] item.k = "end then" -> EndThen(R, item)
          [] item.k = "end if" -> EndIf(R, item)
          [] item.k = "end while" -> EndWhile(R, item)
          [] item.k = "end import" -> EndImport(R, item)
          [] item.k = "end program" -> EndProgram(R)

Lowering(C) == C.built /\ C.exc = "" /\ C.todo # <<>>

RECURSIVE Lower(_)
\* lowering run to its end or to its first exception
Lower(C) == IF Lowering(C) THEN Lower(LowerStep(C)) ELSE C

\* Compiler().compile(node = ast) as called by run_compilation
CompileProgram(statements) == Lower(visit_program(CompilerInit, statements))


-----------------------------------------------------------------------------
(* The driver, main.py: main() reads the file and calls                     *)
(* run_lexical_analysis, run_parsing, run_compilation and run_execution;    *)
(* a CompilationError raised by a stage is caught and passed over, any      *)
(* other exception ends the process with a traceback (status 1).            *)

MaxMainFragments == 2

\* scenario E1: arithmetic and semicolon insertion
SourceE1 ==
    <<"v", "a", "r", " ", "x", ":", " ", "i", "n", "t", " ", "=", " ", "2",
      " ", "+", " ", "3", " ", "*", " ", "4", "\n", "p", "r", "i", "n", "t",
      "(", "\"", "%", "d", "\\", "n", "\"", ",", " ", "x", ")">>

\* scenario E2: recursion
SourceE2 ==
    <<"d", "e", "f", " ", "f", "a", "c", "t", "(", "n", ":", " ", "i", "n",
      "t", ")", " ", "-", ">", " ", "i", "n", "t", ":", "\n", " ", " ", " ",
      " ", "i", "f", " ", "n", " ", "<", "=", " ", "1", ":", " ", "r", "e",
      "t", "u", "r", "n", " ", "1", " ", "e", "n", "d", "\n", " ", " ", " ",
      " ", "r", "e", "t", "u", "r", "n", " ", "n", " ", "*", " ", "f", "a",
      "c", "t", "(", "n", " ", "-", " ", "1", ")", ";", "\n", "e", "n", "d",
      "\n", "p", "r", "i", "n", "t", "(", "\"", "%", "d", "\\", "n", "\"",
      ",", " ", "f", "a", "c", "t", "(", "1", "0", ")", ")", ";", "\n">>

\* scenario E3: while with break and continue
SourceE3 ==
    <<"v", "a", "r", " ", "i", ":", " ", "i", "n", "t", " ", "=", " ", "0",
      ";", " ", "v", "a", "r", " ", "s", ":", " ", "i", "n", "t", " ", "=",
      " ", "0", ";", "\n", "w", "h", "i", "l", "e", " ", "i", " ", "<", " ",
      "1", "0", ":", "\n", " ", " ", " ", " ", "i", " ", "+", "=", " ", "1",
      ";", "\n", " ", " ", " ", " ", "i", "f", " ", "i", " ", "=", "=", " ",
      "3", ":", " ", "c", "o", "n", "t", "i", "n", "u", "e", " ", "e", "n",
      "d", "\n", " ", " ", " ", " ", "i", "f", " ", "i", " ", "=", "=", " ",
      "8", ":", " ", "b", "r", "e", "a", "k", " ", "e", "n", "d", "\n", " ",
      " ", " ", " ", "s", " ", "+", "=", " ", "i", ";", "\n", "e", "n", "d",
      "\n", "p", "r", "i", "n", "t", "(", "\"", "%", "d", "\\", "n", "\"",
      ",", " ", "s", ")", ";", "\n">>

\* scenario E6: syntax error recovery
SourceE6 ==
    <<"v", "a", "r", " ", "x", ":", " ", "i", "n", "t", " ", "=", " ", ";",
      "\n", "v", "a", "r", " ", "y", ":", " ", "i", "n", "t", " ", "=", " ",
      "7", ";", "\n", "p", "r", "i", "n", "t", "(", "\"", "%", "d", "\\",
      "n", "\"", ",", " ", "y", ")", ";", "\n">>

MainFragments ==
    {<<"v", "a", "r", " ", "x", ":", " ", "i", "n", "t", " ", "=", " ", "1", "\n">>,
     <<"x", " ", "+", "=", " ", "2", "\n">>,
     <<"p", "r", "i", "n", "t", "(", "\"", "%", "d", "\"", ",", " ", "x", ")", "\n">>,
     <<"b", "r", "e", "a", "k", "\n">>,
     <<"$", "\n">>,
     <<"v", "a", "r", " ", "y", ":", " ", "i", "n", "t", " ", "=", " ", ";", "\n">>,
     <<"w", "h", "i", "l", "e", " ", "x", " ", "<", " ", "3", ":", " ", "x", " ", "+", "=", " ", "1", ";", " ", "e", "n", "d", "\n">>,
     <<"d", "e", "f", " ", "f", "(", ")", " ", "-", ">", " ", "i", "n", "t", ":", " ", "r", "e", "t", "u", "r", "n", " ", "1", ";", " ", "e", "n", "d", "\n">>,
     <<".", "5", "\n">>,
     <<"y", " ", "=", " ", "1", "\n">>}

MainSources ==
    {SourceE1, SourceE2, SourceE3, SourceE6} \cup Texts(MainFragments, MaxMainFragments)

MainInit ==
    /\ src \in MainSources
    /\ pc = "main"
    /\ FrontEndIdle

Exit(status) == pc' = "exit" /\ exitCode' = <<status>>

\* main up to the pipeline: the file is read, or cannot be read (status 1)
ReadSource ==
    /\ pc = "main"
    /\ \E readable \in BOOLEAN :
          IF readable THEN pc' = "run_lexical_analysis" /\ exitCode' = exitCode
          ELSE Exit(1)
    /\ UNCHANGED <<src, lexer, tokens, passes, parser, compiler, started, ran>>

\* run_lexical_analysis
RunLexicalAnalysis ==
    /\ pc = "run_lexical_analysis"
    /\ started' = Append(started, "lex")
    /\ lexer' = tokenize(src)
    /\ IF lexer'.exc # ""
       THEN /\ tokens' = tokens /\ passes' = passes
            /\ Exit(1)                       \* uncaught exception
       ELSE /\ tokens' = sanitize(lexer'.toks) /\ passes' = 1
            /\ IF Len(lexer'.errs) > 0
               THEN Exit(0)                  \* CompilationError, caught by main
               ELSE pc' = "run_parsing" /\ exitCode' = exitCode
    /\ UNCHANGED <<src, parser, compiler, ran>>

\* run_parsing
RunParsing ==
    /\ pc = "run_parsing"
    /\ started' = Append(started, "parse")
    /\ parser' = parse_program(tokens)
    /\ IF parser'.exc # "" THEN pc' = "parsing" /\ exitCode' = exitCode
       ELSE IF Len(parser'.errs) > 0
       THEN Exit(0)                          \* CompilationError, caught by main
       ELSE pc' = "run_compilation" /\ exitCode' = exitCode
    /\ UNCHANGED <<src, lexer, tokens, passes, compiler, ran>>

\* run_compilation
RunCompilation ==
    /\ pc = "run_compilation"
    /\ started' = Append(started, "lower")
    /\ compiler' = CompileProgram(parser.node)
    /\ IF compiler'.exc # ""
       THEN Exit(1)                          \* uncaught exception or sys.exit(1)
       ELSE pc' = "run_execution" /\ exitCode' = exitCode
    /\ UNCHANGED <<src, lexer, tokens, passes, parser, ran>>

\* run_execution: loading the library, verifying the IR or running the
\* program fails (sys.exit(1)), or the program runs and main returns
RunExecution ==
    /\ pc = "run_execution"
    /\ started' = Append(started, "execute")
    /\ \E ok \in BOOLEAN :
          /\ ran' = ok
          /\ Exit(IF ok THEN 0 ELSE 1)
    /\ UNCHANGED <<src, lexer, tokens, passes, parser, compiler>>

MainNext == ReadSource \/ RunLexicalAnalysis \/ RunParsing \/ RunCompilation \/ RunExecution

SpecMain == MainInit /\ [][MainNext]_vars


-----------------------------------------------------------------------------
(* The scenarios and the driver's contract, under SpecMain.  The model has   *)
(* no interpreter: ran says that the JIT-compiled program was run.           *)

Stages == <<"lex", "parse", "lower", "execute">>

\* main has read the file and has left the pipeline
Finished(source) == src = source /\ pc = "exit" /\ started # <<>>

\* the tokens of line ln
OnLine(toks, ln) == SelectSeq(toks, LAMBDA tok : tok.ps.ln = ln)

Types(toks) == [i \in 1..Len(toks) |-> toks[i].type]

C2_E3AsStated ==
    Finished(SourceE3) =>
        /\ lexer.exc = "" /\ lexer.errs = <<>>
        /\ parser.exc = "" /\ parser.errs = <<>>
        /\ compiler.built /\ compiler.exc = ""
        /\ started = Stages /\ ran

\* C2, as the code has it: for the source of scenario E3 lexing and
\* semicolon insertion succeed without error, but no semicolon is inserted
\* after `continue` on line 4 (nor after `break` on line 5), so that parsing
\* reports syntax errors, the first of them "Expected semicolon" on line 4;
\* lowering and execution never start and the program is not run.
C2_E3 ==
    Finished(SourceE3) =>
        /\ lexer.exc = "" /\ lexer.errs = <<>>
        /\ Types(OnLine(tokens, 4)) =
              <<"IF", "IDENT", "EQ_EQ", "INT", "COLON", "CONTINUE", "END">>
        /\ parser.exc = "" /\ Len(parser.errs) >= 1
        /\ parser.errs[1].details = "Expected semicolon" /\ parser.errs[1].ps.ln = 4
        /\ started = <<"lex", "parse">>
        /\ ~ran

C2_Witness == Finished(SourceE3) /\ Len(parser.errs) = 2 /\ Len(parser.node) = 2

\* C3 as the spec states it: for the source of scenario E6 exactly one
\* syntax error is reported, at the `;` of line 1, and the remaining two
\* statements are still lowered and executed.
C3_E6AsStated ==
    Finished(SourceE6) =>
        /\ Len(parser.errs) = 1
        /\ parser.errs[1].ps.ln = 1 /\ parser.errs[1].ps.idx = 13
        /\ Len(parser.node) = 2
        /\ compiler.built /\ compiler.exc = ""
        /\ started = Stages /\ ran

\* C3, as the code has it: for the source of scenario E6 exactly one syntax
\* error is reported, at the `;` of line 1, and the remaining two statements
\* are still parsed into the program, but lowering and execution never
\* start: nothing is lowered and the program is not run.
C3_E6 ==
    Finished(SourceE6) =>
        /\ Len(parser.errs) = 1
        /\ parser.errs[1].ps.ln = 1 /\ parser.errs[1].ps.idx = 13
        /\ Cur(tokens, 5).type = "SEMICOLON" /\ Cur(tokens, 5).ps.idx = 13
        /\ Len(parser.node) = 2
        /\ parser.node[1].type = "VarStatement"
        /\ parser.node[2].type = "ExpressionStatement"
        /\ started = <<"lex", "parse">>
        /\ compiler = NoCompiler /\ ~ran

C3_Witness == Finished(SourceE6) /\ Len(parser.errs) = 1 /\ exitCode = <<0>>

\* some stage that ran ended with errors: reported ones, or an exception
StageFailed ==
    \/ lexer.errs # <<>> \/ lexer.exc # ""
    \/ parser.errs # <<>> \/ parser.exc # ""
    \/ (compiler.built /\ compiler.exc # "")

\* C4: whenever a stage (lexing, parsing, lowering) ends with a non-empty
\* error set the process exits with status 1, and it exits with status 0
\* only after a successful run of the JIT-compiled program.
C4_ExitStatus ==
    pc = "exit" =>
        /\ StageFailed => exitCode = <<1>>
        /\ exitCode = <<0>> => ran

\* the stages started so far are the first stages, in order
InOrder == \E n \in 0..Len(Stages) : started = SubSeq(Stages, 1, n)

\* C5: the stages run in the order lex+sanitize, parse, lower, execute; each
\* stage runs to completion (no exception leaves it), and a later stage
\* starts if and only if every earlier stage finished with an empty error
\* set.
C5_StageOrder ==
    /\ InOrder
    /\ lexer.exc = "" /\ parser.exc = ""
    /\ Len(started) >= 2 => lexer.errs = <<>>
    /\ Len(started) >= 3 => parser.errs = <<>>
    /\ Len(started) >= 4 => compiler.exc = ""
    /\ pc = "exit" /\ started = <<"lex">> => lexer.errs # <<>>
    /\ pc = "exit" /\ started = <<"lex", "parse">> => parser.errs # <<>>
    /\ pc = "exit" /\ started = <<"lex", "parse", "lower">> => compiler.exc # ""

\* what does hold of the order of the stages and of what starts them
C5_OrderAndGating ==
    /\ InOrder
    /\ Len(started) >= 2 => lexer.exc = "" /\ lexer.errs = <<>>
    /\ Len(started) >= 3 => parser.exc = "" /\ parser.errs = <<>>
    /\ Len(started) >= 4 => compiler.exc = ""


-----------------------------------------------------------------------------
(* SpecLower: run_compilation step by step.  A program that passed lexing   *)
(* and parsing is lowered one piece of work at a time: a statement, or the  *)
(* code that follows a body in visit_function_statement,                    *)
(* visit_while_statement, visit_import_statement or visit_program.          *)

MaxLowerFragments == 4

LowerFragments ==
    {<<"v", "a", "r", " ", "x", ":", " ", "i", "n", "t", " ", "=", " ", "1", ";", "\n">>,
     <<"d", "e", "f", " ", "f", "(", "a", ":", " ", "i", "n", "t", ")", " ", "-", ">", " ", "i", "n", "t", ":", "\n">>,
     <<"v", "a", "r", " ", "y", ":", " ", "i", "n", "t", " ", "=", " ", "2", ";", "\n">>,
     <<"r", "e", "t", "u", "r", "n", " ", "x", ";", "\n">>,
     <<"e", "n", "d", "\n">>,
     <<"w", "h", "i", "l", "e", " ", "a", " ", "<", " ", "3", ":", "\n">>,
     <<"i", "m", "p", "o", "r", "t", " ", "\"", "l", "i", "b", "\"", ";", "\n">>}

LowerSources == Texts(LowerFragments, MaxLowerFragments)

\* the state in which run_compilation has called Compiler.compile(ast)
LowerInit ==
    /\ src \in LowerSources
    /\ pc = "lower"
    /\ lexer = tokenize(src)
    /\ lexer.exc = "" /\ lexer.errs = <<>>
    /\ tokens = sanitize(lexer.toks)
    /\ passes = 1
    /\ parser = parse_program(tokens)
    /\ parser.exc = "" /\ parser.errs = <<>>
    /\ compiler = visit_program(CompilerInit, parser.node)
    /\ started = <<"lex", "parse", "lower">>
    /\ ran = FALSE
    /\ exitCode = <<>>

\* the next piece of work is of kind k
Ready(k) == pc = "lower" /\ Lowering(compiler) /\ Head(compiler.todo).k = k

\* lowering goes on, has raised an exception, or is done
Goes ==
    /\ pc' = IF compiler'.exc # "" THEN "raised"
             ELSE IF compiler'.todo = <<>> THEN "lowered" ELSE "lower"
    /\ UNCHANGED <<src, lexer, tokens, passes, parser, started, ran, exitCode>>

\* Compiler.compile(stmt) up to the bodies of the statement
CompileStatement ==
    /\ Ready("statement")
    /\ compiler' = LowerStep(compiler)
    /\ Goes

\* the body of a function is done
LeaveFunction ==
    /\ Ready("end function")
    /\ compiler' = LowerStep(compiler)
    /\ Goes

\* the statements of the first branch of an if statement are done
LeaveThen ==
    /\ Ready("end then")
    /\ compiler' = LowerStep(compiler)
    /\ Goes

\* the statements of the else branch of an if statement are done
LeaveIf ==
    /\ Ready("end if")
    /\ compiler' = LowerStep(compiler)
    /\ Goes

\* the body of a while statement is done
LeaveWhile ==
    /\ Ready("end while")
    /\ compiler' = LowerStep(compiler)
    /\ Goes

\* the statements of an imported file are done
LeaveImport ==
    /\ Ready("end import")
    /\ compiler' = LowerStep(compiler)
    /\ Goes

\* the statements of the program are done
LeaveProgram ==
    /\ Ready("end program")
    /\ compiler' = LowerStep(compiler)
    /\ Goes

LowerNext == CompileStatement \/ LeaveFunction \/ LeaveWhile \/ LeaveImport \/ LeaveProgram

SpecLower == LowerInit /\ [][LowerNext]_vars


-----------------------------------------------------------------------------
(* Scope, under SpecLower.  A binding made by `var` is a stack slot: the    *)
(* record [value |-> Alloca(id, function), type] of the frame it was        *)
(* defined in.  Parameters are stack slots of the function frame as well.   *)

RECURSIVE Chain(_, _)
\* the frames that a lookup from frame e goes through
Chain(frames, e) ==
    {e} \cup (IF frames[e].parent # 0 THEN Chain(frames, frames[e].parent) ELSE {})

\* the names that frame e binds to stack slots
Slots(frames, e) ==
    {n \in DOMAIN frames[e].records : frames[e].records[n].value.kind = "Alloca"}

\* the lowering is inside the body of function name: the code that follows
\* the body is still to be done
Open(C, name) ==
    \E i \in 1..Len(C.todo) : C.todo[i].k = "end function" /\ C.todo[i].name = name

\* a stack slot of a function frame is reached from no frame outside that
\* function, and the lowering resolves a name to it only while it is
\* inside that function
LocalsStayInside(C) ==
    \A e \in 2..Len(C.frames) : \A n \in Slots(C.frames, e) :
        LET b == C.frames[e].records[n] IN
        /\ \A o \in 1..Len(C.frames) :
              e \notin Chain(C.frames, o) => lookup(C.frames, o, n) # b
        /\ lookup(C.frames, C.env, n) = b => Open(C, b.value.function)

\* every name bound to a stack slot at module scope so far is resolvable
\* from every frame, the frame of the code being lowered among them
GlobalsReachBodies(C) ==
    \A n \in Slots(C.frames, 1) :
        /\ lookup(C.frames, C.env, n) # None
        /\ \A e \in 1..Len(C.frames) : lookup(C.frames, e, n) # None

\* C10 as the spec states it: for a program that is lowered, a name bound
\* by `var` inside a function body is not resolvable from code outside that
\* function, and every name that the program binds by `var` at module scope
\* is resolvable by lookup from the body of every function, that is,
\* whenever the code being lowered is inside a function.
C10_ScopeAsStated ==
    LET lowered == CompileProgram(parser.node) IN
    (compiler.exc = "" /\ lowered.exc = "") =>
        /\ LocalsStayInside(compiler)
        /\ compiler.env # 1 =>
              \A n \in Slots(lowered.frames, 1) :
                  lookup(compiler.frames, compiler.env, n) # None

\* C10, as the code has it: a name bound by `var` inside a function body is
\* not resolvable by lookup from code outside that function, and a name
\* bound by `var` at module scope is resolvable by lookup from the body of
\* every function that is lowered after the binding was made.
C10_Scope ==
    compiler.exc = "" => LocalsStayInside(compiler) /\ GlobalsReachBodies(compiler)

\* x was bound at module scope, then a function body that binds a local y
\* was lowered, and the lowering is back at module scope
C10_Witness ==
    /\ compiler.built /\ compiler.exc = "" /\ compiler.env = 1
    /\ "x" \in Slots(compiler.frames, 1)
    /\ \E e \in 2..Len(compiler.frames) :
          /\ "y" \in Slots(compiler.frames, e)
          /\ compiler.frames[1].records["x"].value.id
                < compiler.frames[e].records["y"].value.id


-----------------------------------------------------------------------------
(* SpecLoop: the lowering, step by step, of programs made of while and if   *)
(* statements, break and continue.                                          *)

MaxLoopFragments == 5

LoopFragments ==
    {<<"w", "h", "i", "l", "e", " ", "t", "r", "u", "e", ":", "\n">>,
     <<"i", "f", " ", "t", "r", "u", "e", ":", "\n">>,
     <<"b", "r", "e", "a", "k", ";", "\n">>,
     <<"c", "o", "n", "t", "i", "n", "u", "e", ";", "\n">>,
     <<"e", "n", "d", "\n">>}

\* the state in which run_compilation has called Compiler.compile(ast)
LoopInit ==
    /\ src \in Texts(LoopFragments, MaxLoopFragments)
    /\ pc = "lower"
    /\ lexer = tokenize(src)
    /\ lexer.exc = "" /\ lexer.errs = <<>>
    /\ tokens = sanitize(lexer.toks)
    /\ passes = 1
    /\ parser = parse_program(tokens)
    /\ parser.exc = "" /\ parser.errs = <<>>
    /\ compiler = visit_program(CompilerInit, parser.node)
    /\ started = <<"lex", "parse", "lower">>
    /\ ran = FALSE
    /\ exitCode = <<>>

LoopNext == CompileStatement \/ LeaveThen \/ LeaveIf \/ LeaveWhile \/ LeaveProgram

SpecLoop == LoopInit /\ [][LoopNext]_vars

\* the statement that the next step lowers is of the given type
Lowers(type) ==
    /\ Ready("statement")
    /\ Head(compiler.todo).node.type = type

\* the while statements whose body is being lowered, innermost first: the
\* code that follows their bodies is still to be done
OpenWhiles(C) == SelectSeq(C.todo, LAMBDA item : item.k = "end while")

Top(stack) == stack[Len(stack)]

\* the last instruction emitted by a step is a branch to target
EmitsBranch(target) == compiler'.ir = Emit(compiler, <<Branch(target)>>).ir

\* C11: for any nesting of while statements, a break lowered without error
\* emits an unconditional branch to the exit block of the innermost
\* enclosing while and a continue a branch to the entry block of the same
\* while; after a while has been lowered, the targets of the enclosing
\* while are on top of the two stacks again (the stacks are empty when no
\* while encloses it).
C11_LoopControl ==
    [][ /\ (Lowers("BreakStatement") /\ compiler'.exc = "") =>
              /\ OpenWhiles(compiler) # <<>>
              /\ EmitsBranch(Head(OpenWhiles(compiler)).while_loop_otherwise)
        /\ (Lowers("ContinueStatement") /\ compiler'.exc = "") =>
              /\ OpenWhiles(compiler) # <<>>
              /\ EmitsBranch(Head(OpenWhiles(compiler)).while_loop_entry)
        /\ (Ready("end while") /\ compiler'.exc = "") =>
              IF OpenWhiles(compiler') = <<>>
              THEN compiler'.breakpoints = <<>> /\ compiler'.continues = <<>>
              ELSE /\ Top(compiler'.breakpoints)
                         = Head(OpenWhiles(compiler')).while_loop_otherwise
                   /\ Top(compiler'.continues)
                         = Head(OpenWhiles(compiler')).while_loop_entry
      ]_vars

\* a while nested in a while has been lowered, with a break and a continue
\* branching to its blocks, and the lowering is back in the outer while
C11_Witness ==
    /\ compiler.exc = "" /\ compiler.counter = 2
    /\ compiler.breakpoints = <<Block("while_loop_otherwise", 1)>>
    /\ \E i \in 1..Len(compiler.ir) :
          compiler.ir[i].ins = Branch(Block("while_loop_otherwise", 2))


\* C16: a break lowered while the break stack is empty, and a continue
\* lowered while the continue stack is empty, raises the "outside of loop"
\* error and emits no branch: the statement is never skipped silently.
C16_OutsideLoop ==
    [][ /\ (Lowers("BreakStatement") /\ compiler.breakpoints = <<>>) =>
              /\ compiler'.exc = "RuntimeError"
              /\ compiler'.ir = compiler.ir
        /\ (Lowers("ContinueStatement") /\ compiler.continues = <<>>) =>
              /\ compiler'.exc = "RuntimeError"
              /\ compiler'.ir = compiler.ir
      ]_vars

\* the error has been raised for a break or continue that follows a while
\* statement already lowered: the two branches of that while are all that
\* was emitted
C16_Witness ==
    /\ compiler.exc = "RuntimeError"
    /\ compiler.counter = 1
    /\ compiler.breakpoints = <<>> /\ compiler.continues = <<>>
    /\ Len(compiler.ir) = 2


-----------------------------------------------------------------------------
(* Properties of tokenize, checked under SpecLex.                           *)

EOFCount(toks) == Cardinality({i \in 1..Len(toks) : toks[i].type = "EOF"})

\* C12: lexer totality - for every source, tokenize raises no exception and,
\* when it returns, it has consumed the input to its end and the token list
\* holds exactly one EOF token, as its last element.
C12_LexerTotality ==
    /\ pc # "raised"
    /\ lexer.exc = ""
    /\ pc = "sanitize" =>
          /\ CurChar(src, lexer.pos) = NoChar
          /\ lexer.toks # <<>>
          /\ lexer.toks[Len(lexer.toks)].type = "EOF"
          /\ EOFCount(lexer.toks) = 1


-----------------------------------------------------------------------------
(* The rule of automatic semicolon insertion, checked under SpecLex.        *)

\* the token at index i of toks is due a semicolon: it and the next token
\* are on different lines and the pair is one of the three listed, or the
\* next token is EOF and it closes an expression or is break/continue/return
Due(toks, i) ==
    /\ i < Len(toks)
    /\ LET prev == toks[i]
           cur == toks[i + 1]
       IN  \/ /\ cur.type # "EOF"
              /\ prev.pe.ln # cur.ps.ln
              /\ \/ prev.type \in ExpressionClosers /\ cur.type \in StatementStarters
                 \/ prev.type \in {"BREAK", "CONTINUE"}
                 \/ prev.type = "RETURN" /\ cur.type \in ReturnFollowers
           \/ /\ cur.type = "EOF"
              /\ prev.type \in FinalClosers

RECURSIVE InsertionsOnly(_, _, _, _)
\* out, read from index j, is toks from index i on, in order, with one
\* SEMICOLON placed right after each token that is due one and after no other
InsertionsOnly(toks, out, i, j) ==
    IF i > Len(toks) THEN j > Len(out)
    ELSE /\ j <= Len(out)
         /\ out[j] = toks[i]
         /\ IF Due(toks, i)
            THEN /\ j + 1 <= Len(out)
                 /\ out[j + 1].type = "SEMICOLON"
                 /\ out[j + 1].ps = toks[i].pe
                 /\ InsertionsOnly(toks, out, i + 1, j + 2)
            ELSE InsertionsOnly(toks, out, i + 1, j + 1)

\* C13: the rule of automatic semicolon insertion - sanitize returns its
\* input tokens in their order, none removed, with a SEMICOLON right after
\* exactly the tokens that the rule names: no other token receives one and
\* none receives more than one.
C13_ASIRule ==
    [][pc = "sanitize" => InsertionsOnly(tokens, tokens', 1, 1)]_vars

\* sanitize has added a semicolon and has left a line break without one
C13_Witness ==
    /\ pc = "sanitize" /\ passes = 1
    /\ Len(tokens) > Len(lexer.toks)
    /\ \E i \in 1..(Len(lexer.toks) - 1) :
          /\ lexer.toks[i].pe.ln # lexer.toks[i + 1].ps.ln
          /\ ~Due(lexer.toks, i)


-----------------------------------------------------------------------------
(* Properties of var statements, checked under SpecLower.                   *)

\* C14: var binds in the current scope only - a var statement whose name the
\* current frame does not bind yet, whether or not an enclosing frame binds
\* it, allocates a fresh slot and binds the name to it in the current frame,
\* leaving every other frame as it was; a var statement whose name the
\* current frame already binds allocates nothing and keeps the binding.
C14_VarBindsCurrentScope ==
    [][(Lowers("VarStatement") /\ compiler'.exc = "") =>
          LET n == Head(compiler.todo).node.name.value
              e == compiler.env
          IN  IF n \in DOMAIN compiler.frames[e].records
              THEN /\ compiler'.slots = compiler.slots
                   /\ compiler'.frames = compiler.frames
              ELSE /\ compiler'.slots = compiler.slots + 1
                   /\ n \in Slots(compiler'.frames, e)
                   /\ compiler'.frames[e].records[n].value.id = compiler'.slots
                   /\ \A o \in 1..Len(compiler.frames) :
                         o # e => compiler'.frames[o] = compiler.frames[o]
      ]_vars


-----------------------------------------------------------------------------
(* SpecImport: the lowering, step by step, of programs that import files.   *)

MaxImportFragments == 3

ImportFragments ==
    {<<"i", "m", "p", "o", "r", "t", " ", "\"", "l", "i", "b", "\"", ";", "\n">>,
     <<"i", "m", "p", "o", "r", "t", " ", "\"", ".", "/", "l", "i", "b", "\"", ";", "\n">>,
     <<"i", "m", "p", "o", "r", "t", " ", "\"", "m", "i", "d", "\"", ";", "\n">>,
     <<"v", "a", "r", " ", "k", ":", " ", "i", "n", "t", " ", "=", " ", "1", ";", "\n">>}

\* the state in which run_compilation has called Compiler.compile(ast)
ImportInit ==
    /\ src \in Texts(ImportFragments, MaxImportFragments)
    /\ pc = "lower"
    /\ lexer = tokenize(src)
    /\ lexer.exc = "" /\ lexer.errs = <<>>
    /\ tokens = sanitize(lexer.toks)
    /\ passes = 1
    /\ parser = parse_program(tokens)
    /\ parser.exc = "" /\ parser.errs = <<>>
    /\ compiler = visit_program(CompilerInit, parser.node)
    /\ started = <<"lex", "parse", "lower">>
    /\ ran = FALSE
    /\ exitCode = <<>>

ImportNext == CompileStatement \/ LeaveImport \/ LeaveProgram

SpecImport == ImportInit /\ [][ImportNext]_vars

\* the absolute paths of the files lowered so far or being lowered
Imported(C) ==
    {abspath(f) : f \in C.pallets}
        \cup {abspath(C.todo[i].file_path) :
                 i \in {j \in 1..Len(C.todo) : C.todo[j].k = "end import"}}

\* C15: import de-duplication - an import statement, nested or not, whose
\* path resolves to the absolute path of a file already lowered in this
\* compilation, however the path is spelled, counts one warning and lowers
\* nothing: no statement of the file is added to the work to do.
C15_ImportOnce ==
    [][(/\ Lowers("ImportStatement")
        /\ abspath(Head(compiler.todo).node.file_path) \in Imported(compiler)) =>
          /\ compiler'.warnings = compiler.warnings + 1
          /\ compiler'.todo = Tail(compiler.todo)
          /\ compiler'.slots = compiler.slots
          /\ compiler'.exc = ""
      ]_vars

\* the part of C15 that the code keeps: an import whose path is spelled as
\* that of a file already lowered counts one warning and lowers nothing
C15_SameSpelling ==
    [][(/\ Lowers("ImportStatement")
        /\ Head(compiler.todo).node.file_path \in compiler.pallets) =>
          /\ compiler'.warnings = compiler.warnings + 1
          /\ compiler'.todo = Tail(compiler.todo)
          /\ compiler'.slots = compiler.slots
      ]_vars


-----------------------------------------------------------------------------
(* SpecPow: the lowering of expression statements a ** b and a ** b ** c    *)
(* whose operands are int and float literals and variables.                 *)

MaxPowOperands == 3

PowOperands == {<<"2">>, <<"0", ".", "5">>, <<"n">>, <<"r">>}

\* the declarations of n and r
PowDeclarations ==
    <<"v", "a", "r", " ", "n", ":", " ", "i", "n", "t", " ", "=", " ", "2", ";", "\n", "v", "a", "r", " ", "r", ":", " ", "f", "l", "o", "a", "t", " ", "=", " ", "0", ".", "5", ";", "\n">>

RECURSIVE PowText(_, _)
PowText(operands, i) ==
    IF i = Len(operands) THEN operands[i] \o <<";">>
    ELSE operands[i] \o <<" ", "*", "*", " ">> \o PowText(operands, i + 1)

PowInit ==
    /\ src \in {PowDeclarations \o PowText(operands, 1) :
                  operands \in UNION {[1..k -> PowOperands] : k \in 2..MaxPowOperands}}
    /\ pc = "lower"
    /\ lexer = tokenize(src)
    /\ tokens = sanitize(lexer.toks)
    /\ passes = 1
    /\ parser = parse_program(tokens)
    /\ compiler = visit_program(CompilerInit, parser.node)
    /\ started = <<"lex", "parse", "lower">>
    /\ ran = FALSE
    /\ exitCode = <<>>

PowNext == CompileStatement \/ LeaveProgram

SpecPow == PowInit /\ [][PowNext]_vars

RECURSIVE Powers(_)
\* the ** expressions of a chain a ** b ** c, outermost first
Powers(expr) ==
    IF expr.type = "InfixExpression" /\ expr.operator = "**"
    THEN <<expr>> \o Powers(expr.right_node)
    ELSE <<>>

\* the ** expressions of the statement that the next step lowers
PowersLowered ==
    IF Lowers("ExpressionStatement") THEN Powers(Head(compiler.todo).node.expr) ELSE <<>>

Numeric(t) == IsIntType(t) \/ IsDoubleType(t)

\* C17: a ** b, for every combination of int and float operand types, is
\* lowered without exception to a value of type f64 (the call of pow) and
\* the type reported with the value is f64.
C17_PowIsFloat ==
    \A i \in 1..Len(PowersLowered) :
        LET e == PowersLowered[i]
            l == resolve_value(compiler, e.left_node)
            r == resolve_value(compiler, e.right_node)
            v == resolve_value(compiler, e)
        IN  (Numeric(l.type) /\ Numeric(r.type)) =>
                /\ v.exc = ""
                /\ v.vtype = "double"
                /\ v.type = "double"

\* the part of C17 about the value alone
C17_PowValueIsFloat ==
    \A i \in 1..Len(PowersLowered) :
        LET v == resolve_value(compiler, PowersLowered[i])
        IN  v.exc = "" /\ v.vtype = "double"


-----------------------------------------------------------------------------
(* SpecRecover: the front end on sources made of whole lines, some of them  *)
(* with a syntax error.                                                     *)

MaxRecoverFragments == 4

\* simple statements without error
GoodLines ==
    {<<"x", " ", "=", " ", "1", ";", "\n">>,
     <<"b", "r", "e", "a", "k", ";", "\n">>}

\* simple statements with one syntax error before their semicolon
BadLines ==
    {<<"v", "a", "r", " ", "x", ":", " ", "i", "n", "t", " ", "=", " ", ";", "\n">>,
     <<"x", " ", "y", ";", "\n">>}

\* a while header with a syntax error: the next semicolon is that of the
\* simple statement that follows
BadHeaders ==
    {<<"w", "h", "i", "l", "e", " ", "x", " ", "y", ":", "\n">>}

BlockLines ==
    {<<"w", "h", "i", "l", "e", " ", "x", ":", "\n">>,
     <<"e", "n", "d", "\n">>}

RecoverFragments == GoodLines \cup BadLines \cup BadHeaders \cup BlockLines

RecoverInit ==
    /\ src \in Texts(RecoverFragments, MaxRecoverFragments)
    /\ pc = "main"
    /\ FrontEndIdle

SpecRecover == RecoverInit /\ [][ParseNext]_vars

RECURSIVE Lines(_, _)
\* the lines of text s, each with its line break; acc is the line begun
Lines(s, acc) ==
    IF s = <<>> THEN (IF acc = <<>> THEN <<>> ELSE <<acc>>)
    ELSE IF Head(s) = "\n" THEN <<Append(acc, "\n")>> \o Lines(Tail(s), <<>>)
    ELSE Lines(Tail(s), Append(acc, Head(s)))

HasSemicolon(line) == \E i \in 1..Len(line) : line[i] = ";"

RECURSIVE Recovery(_, _, _)
\* What error recovery makes of the lines ls from index i on: kept, the
\* lines that are parsed, and failed, the number of statements given up.
\* With skipping set, the lines up to the next semicolon are being skipped.
Recovery(ls, i, skipping) ==
    IF i > Len(ls) THEN [kept |-> <<>>, failed |-> 0]
    ELSE IF skipping
    THEN Recovery(ls, i + 1, ~HasSemicolon(ls[i]))
    ELSE IF ls[i] \in BadLines \cup BadHeaders
    THEN LET rest == Recovery(ls, i + 1, ~HasSemicolon(ls[i]))
         IN  [rest EXCEPT !.failed = @ + 1]
    ELSE LET rest == Recovery(ls, i + 1, FALSE)
         IN  [rest EXCEPT !.kept = <<ls[i]>> \o @]

\* the front end applied to the lines that recovery keeps
ParsedWithout(ls) ==
    parse_program(sanitize(tokenize(Concat(Recovery(ls, 1, FALSE).kept)).toks))

\* each diagnostic has the range of a token of the stream
AtTokens(errs, toks) ==
    \A i \in 1..Len(errs) : \E j \in 1..Len(toks) :
        errs[i].ps = toks[j].ps /\ errs[i].pe = toks[j].pe

\* the source has been parsed, and its only syntax errors are those of the
\* lines with an error: what recovery keeps is parsed without error
Recovered ==
    /\ pc = "parsed"
    /\ ParsedWithout(Lines(src, <<>>)).errs = <<>>
    /\ ParsedWithout(Lines(src, <<>>)).excs = <<>>

-----------------------------------------------------------------------------
(* Numeric literals, checked under SpecLex.                                 *)

\* the character after the current one
NextChar == CurChar(src, LexAdvance(src, lexer.pos))

\* the characters that a pass of the loop of tokenize has consumed
Consumed == SubSeq(src, lexer.pos.idx + 1, lexer'.pos.idx)

\* C19: numeric literals - a pass of tokenize that starts at a digit, or at
\* a `.` followed by a digit, appends one token, INT when the lexeme holds
\* no `.` and FLOAT otherwise; a pass that starts at a `.` not followed by a
\* digit records one lexical error, appends no token and moves the cursor
\* by one character; neither raises an exception.
C19_NumericLiterals ==
    [][pc = "tokenize" =>
        /\ (\/ CurChar(src, lexer.pos) \in DIGITS
            \/ CurChar(src, lexer.pos) = "." /\ NextChar \in DIGITS) =>
              /\ lexer'.exc = ""
              /\ Len(lexer'.toks) = Len(lexer.toks) + 1
              /\ lexer'.toks[Len(lexer'.toks)].type =
                    IF \E i \in 1..Len(Consumed) : Consumed[i] = "."
                    THEN "FLOAT" ELSE "INT"
        /\ (CurChar(src, lexer.pos) = "." /\ NextChar \notin DIGITS) =>
              /\ lexer'.exc = ""
              /\ Len(lexer'.errs) = Len(lexer.errs) + 1
              /\ lexer'.toks = lexer.toks
              /\ lexer'.pos.idx = lexer.pos.idx + 1
      ]_vars

\* the part of C19 that the code keeps: a lexeme that starts with a digit
\* is INT when it holds no `.` and FLOAT otherwise, and a `.` that ends the
\* source is one lexical error and no token
C19_DigitFirst ==
    [][pc = "tokenize" =>
        /\ CurChar(src, lexer.pos) \in DIGITS =>
              /\ lexer'.exc = ""
              /\ Len(lexer'.toks) = Len(lexer.toks) + 1
              /\ lexer'.toks[Len(lexer'.toks)].type =
                    IF \E i \in 1..Len(Consumed) : Consumed[i] = "."
                    THEN "FLOAT" ELSE "INT"
        /\ (CurChar(src, lexer.pos) = "." /\ NextChar = NoChar) =>
              /\ lexer'.exc = ""
              /\ Len(lexer'.errs) = Len(lexer.errs) + 1
              /\ lexer'.toks = lexer.toks
              /\ lexer'.pos.idx = lexer.pos.idx + 1
      ]_vars


-----------------------------------------------------------------------------
(* Call expressions, checked under SpecParse.                               *)

RECURSIVE IdentCallees(_)
\* the callee of every call expression in the node n is an identifier
IdentCallees(n) ==
    IF n = NoNode THEN TRUE
    ELSE
    LET All(ns) == \A i \in 1..Len(ns) : IdentCallees(ns[i]) IN
    CASE n.type = "CallExpression" ->
            /\ n.function.type = "IdentifierLiteral"
            /\ All(n.args)
      [] n.type = "InfixExpression" ->
            IdentCallees(n.left_node) /\ IdentCallees(n.right_node)
      [] n.type = "PrefixExpression" -> IdentCallees(n.right_node)
      [] n.type = "ExpressionStatement" -> IdentCallees(n.expr)
      [] n.type = "VarStatement" -> IdentCallees(n.value)
      [] n.type = "AssignStatement" -> IdentCallees(n.right_value)
      [] n.type = "ReturnStatement" -> IdentCallees(n.return_value)
      [] n.type = "IfStatement" ->
            IdentCallees(n.condition) /\ All(n.body) /\ All(n.else_body)
      [] n.type = "WhileStatement" -> IdentCallees(n.condition) /\ All(n.body)
      [] n.type = "FunctionStatement" -> All(n.body)
      [] OTHER -> TRUE

\* C20: call expressions require an identifier callee - in the program that
\* parse_program returns, the callee of every call node is an identifier:
\* a `(` that follows any other expression makes no call node.
C20_CalleeIsIdent ==
    pc = "parsed" => \A i \in 1..Len(parser.node) : IdentCallees(parser.node[i])


-----------------------------------------------------------------------------
(* SpecString: a string literal is lexed and its text is decoded as         *)
(* Compiler.convert_string decodes it.  Bytes without a character of their  *)
(* own in a TLA+ string are named: NUL, BS, VT.                             *)

MaxStringLen == 4

StringAlphabet == {"\\", "n", "0", "a", "\""}

\* str.replace(old, new) for a two-character old and a one-byte new, on a
\* sequence of characters: occurrences are replaced from left to right
RECURSIVE replace(_, _, _)
replace(string, old, new) ==
    IF Len(string) >= 2 /\ SubSeq(string, 1, 2) = old
    THEN <<new>> \o replace(SubSeq(string, 3, Len(string)), old, new)
    ELSE IF string = <<>> THEN <<>>
    ELSE <<Head(string)>> \o replace(Tail(string), old, new)

\* the ten replace calls of Compiler.convert_string, in their order
DecodeEscapes(string) ==
    LET s1 == replace(string, <<"\\", "n">>, "\n")
        s2 == replace(s1, <<"\\", "t">>, "\t")
        s3 == replace(s2, <<"\\", "r">>, "\r")
        s4 == replace(s3, <<"\\", "\\">>, "\\")
        s5 == replace(s4, <<"\\", "\"">>, "\"")
        s6 == replace(s5, <<"\\", "'">>, "'")
        s7 == replace(s6, <<"\\", "0">>, "NUL")
        s8 == replace(s7, <<"\\", "b">>, "BS")
        s9 == replace(s8, <<"\\", "f">>, "\f")
    IN  replace(s9, <<"\\", "v">>, "VT")

\* fmt of Compiler.convert_string: the decoded text with its null terminator
NullTerminated(string) ==
    IF string # <<>> /\ string[Len(string)] = "NUL" THEN string
    ELSE Append(string, "NUL")

RECURSIVE Str(_)
\* the characters of a text as one string
Str(chars) == IF chars = <<>> THEN "" ELSE Head(chars) \o Str(Tail(chars))

\* the text between the quotes of the source
LiteralText == SubSeq(src, 2, Len(src) - 1)

StringInit ==
    /\ src \in {<<"\"">> \o text \o <<"\"">> :
                  text \in UNION {[1..k -> StringAlphabet] : k \in 0..MaxStringLen}}
    /\ pc = "main"
    /\ FrontEndIdle

\* Lexer(src).tokenize() on the literal
LexLiteral ==
    /\ pc = "main"
    /\ lexer' = tokenize(src)
    /\ tokens' = IF lexer'.exc = "" THEN lexer'.toks ELSE <<>>
    /\ pc' = IF lexer'.exc # "" THEN "raised" ELSE "lower"
    /\ UNCHANGED <<src, passes, parser, compiler, started, ran, exitCode>>

\* the source is one string literal whose text the lexer kept as it stands
WholeLiteral ==
    /\ lexer.errs = <<>>
    /\ Len(tokens) = 2
    /\ tokens[1].type = "STRING"
    /\ tokens[1].literal = Str(LiteralText)

\* Compiler.convert_string(node.value) up to the byte array
ConvertLiteral ==
    /\ pc = "lower"
    /\ WholeLiteral
    /\ compiler' = [built |-> TRUE, fmt |-> NullTerminated(DecodeEscapes(LiteralText))]
    /\ pc' = "lowered"
    /\ UNCHANGED <<src, lexer, tokens, passes, parser, started, ran, exitCode>>

StringNext == LexLiteral \/ ConvertLiteral

SpecString == StringInit /\ [][StringNext]_vars

\* the byte of each two-character escape
EscapeByte ==
    [c \in {"n", "t", "r", "\\", "\"", "'", "0", "b", "f", "v"} |->
        CASE c = "n" -> "\n" [] c = "t" -> "\t" [] c = "r" -> "\r"
          [] c = "\\" -> "\\" [] c = "\"" -> "\"" [] c = "'" -> "'"
          [] c = "0" -> "NUL" [] c = "b" -> "BS" [] c = "f" -> "\f"
          [] c = "v" -> "VT"]

RECURSIVE LeftToRight(_)
\* the text decoded escape by escape, from left to right
LeftToRight(text) ==
    IF text = <<>> THEN <<>>
    ELSE IF Head(text) = "\\" /\ Len(text) >= 2 /\ text[2] \in DOMAIN EscapeByte
    THEN <<EscapeByte[text[2]]>> \o LeftToRight(SubSeq(text, 3, Len(text)))
    ELSE <<Head(text)>> \o LeftToRight(Tail(text))

\* C21: string escape decoding - the bytes that convert_string makes of a
\* literal are its text decoded escape by escape from left to right (each
\* two-character escape one byte, every other character unchanged),
\* followed by the null terminator: `\\n` gives a backslash and an n.
C21_EscapeDecoding ==
    pc = "lowered" => compiler.fmt = NullTerminated(LeftToRight(LiteralText))

\* the part of C21 that the code keeps: a text without an escaped backslash
\* is decoded from left to right
C21_NoEscapedBackslash ==
    (/\ pc = "lowered"
     /\ \A i \in 1..(Len(LiteralText) - 1) :
            ~(LiteralText[i] = "\\" /\ LiteralText[i + 1] = "\\"))
        => compiler.fmt = NullTerminated(LeftToRight(LiteralText))


-----------------------------------------------------------------------------
(* Function lowering and the frames (SpecLower).                            *)

\* the functions whose bodies the lowering is inside, innermost first
OpenFunctions(C) == SelectSeq(C.todo, LAMBDA item : item.k = "end function")

\* frame e of the lowering after the step is frame e as it was, but for a
\* binding of name to the function of that name
OnlyBinds(e, name) ==
    LET before == compiler.frames[e]
        after == compiler'.frames[e]
    IN  /\ after.parent = before.parent
        /\ DOMAIN after.records = DOMAIN before.records \cup {name}
        /\ after.records[name].value = Function(name)
        /\ \A n \in DOMAIN before.records \ {name} : after.records[n] = before.records[n]

\* C22: function lowering - the function's name is bound in the child frame
\* before any statement of the body is lowered; after the function has been
\* lowered the current environment and the builder are those of before the
\* function statement; the child frame is discarded (no lookup goes through
\* it any more); and the only change to the parent frame is the binding of
\* the function's name: no step of the body touches a frame other than the
\* current one, which is never the parent frame of an open function.
C22_FunctionFrames ==
    [][ /\ Lowers("FunctionStatement") =>
              LET node == Head(compiler.todo).node
                  child == compiler'.env
              IN  /\ child = Len(compiler.frames) + 1
                  /\ Len(compiler'.frames) = child
                  /\ compiler'.frames[child].parent = compiler.env
                  /\ node.name.value \in DOMAIN compiler'.frames[child].records
                  /\ compiler'.frames[child].records[node.name.value].value
                        = Function(node.name.value)
                  /\ \A e \in 1..Len(compiler.frames) :
                        compiler'.frames[e] = compiler.frames[e]
                  /\ SubSeq(compiler'.todo, 1, Len(node.body)) = Statements(node.body)
                  /\ Head(OpenFunctions(compiler')).previous_env = compiler.env
                  /\ Head(OpenFunctions(compiler')).previous_builder = compiler.builder
                  /\ Head(OpenFunctions(compiler')).previous_block = compiler.block
        /\ Ready("end function") =>
              LET item == Head(compiler.todo)
              IN  /\ compiler'.env = item.previous_env
                  /\ compiler'.builder = item.previous_builder
                  /\ compiler'.block = item.previous_block
                  /\ compiler.env \notin Chain(compiler'.frames, compiler'.env)
                  /\ Len(compiler'.frames) = Len(compiler.frames)
                  /\ OnlyBinds(item.previous_env, item.name)
                  /\ \A e \in 1..Len(compiler.frames) :
                        e # item.previous_env => compiler'.frames[e] = compiler.frames[e]
                  /\ Tail(OpenFunctions(compiler)) = OpenFunctions(compiler')
        /\ (Lowering(compiler) /\ ~Lowers("FunctionStatement") /\ ~Ready("end function")) =>
              /\ Len(compiler'.frames) = Len(compiler.frames)
              /\ \A e \in 1..Len(compiler.frames) :
                    e # compiler.env => compiler'.frames[e] = compiler.frames[e]
              /\ OpenFunctions(compiler') = OpenFunctions(compiler)
        /\ \A i \in 1..Len(OpenFunctions(compiler)) :
              OpenFunctions(compiler)[i].previous_env # compiler.env
      ]_vars

\* a function whose body binds a local has been lowered: the lowering is
\* back in the global frame, which binds the function's name, and the
\* function's frame is left behind with its local
C22_Witness ==
    /\ compiler.exc = "" /\ compiler.env = 1 /\ compiler.builder = ".main"
    /\ OpenFunctions(compiler) = <<>>
    /\ "f" \in DOMAIN compiler.frames[1].records
    /\ Len(compiler.frames) = 2
    /\ {"f", "a", "y"} \subseteq DOMAIN compiler.frames[2].records


-----------------------------------------------------------------------------
(* SpecEnv: the operations of Environment on the frames of a Compiler, as   *)
(* the Compiler uses them: a frame is made with the current frame as its    *)
(* parent and becomes the current one, the current frame goes back to its   *)
(* parent, and a name is defined in the current frame.                      *)

MaxFrames == 3

EnvNames == {"x", "print"}

EnvBindings ==
    {[value |-> Alloca(1, ".main"), type |-> "i64"], [value |-> Function("x"), type |-> "double"]}

EnvInit ==
    /\ src = <<>>
    /\ pc = "lower"
    /\ lexer = LexerInit(<<>>)
    /\ tokens = <<>>
    /\ passes = 0
    /\ parser = ParserInit
    /\ compiler = CompilerInit
    /\ started = <<>>
    /\ ran = FALSE
    /\ exitCode = <<>>

EnvUnchanged == UNCHANGED <<pc, src, lexer, tokens, passes, parser, started, ran, exitCode>>

\* self.env = Environment(parent = self.env)
EnterFrame ==
    /\ Len(compiler.frames) < MaxFrames
    /\ compiler' = [compiler EXCEPT !.frames = Append(@, Environment(compiler.env)),
                                    !.env = Len(compiler.frames) + 1]
    /\ EnvUnchanged

\* self.env = previous_env
LeaveFrame ==
    /\ compiler.frames[compiler.env].parent # 0
    /\ compiler' = [compiler EXCEPT !.env = compiler.frames[compiler.env].parent]
    /\ EnvUnchanged

\* self.env.define(name, value, type)
DefineName ==
    /\ \E name \in EnvNames, b \in EnvBindings :
          compiler' = [compiler EXCEPT
                          !.frames = define(@, compiler.env, name, b.value, b.type)]
    /\ EnvUnchanged

EnvNext == EnterFrame \/ LeaveFrame \/ DefineName

SpecEnv == EnvInit /\ [][EnvNext]_vars

\* the frames on the parent chain of e that bind name
Binders(frames, e, name) == {f \in Chain(frames, e) : name \in DOMAIN frames[f].records}

\* the binding of name in the nearest frame on the parent chain of e: the
\* binder that every other binder is an ancestor of
Nearest(frames, e, name) ==
    IF Binders(frames, e, name) = {} THEN None
    ELSE LET f == CHOOSE f \in Binders(frames, e, name) :
                      \A g \in Binders(frames, e, name) : g \in Chain(frames, f)
         IN  frames[f].records[name]

\* the names that some frame binds or may come to bind
KnownNames(frames) == EnvNames \cup UNION {DOMAIN frames[e].records : e \in 1..Len(frames)}

\* C23: environment - define changes only the mapping of the current frame
\* for the name defined, no ancestor and no sibling frame; lookup returns
\* the binding of the nearest frame on the parent chain that binds the
\* name, and the absent value when none does; and nothing deletes a
\* binding: a name that resolves from a frame resolves from it ever after.
C23_Environment ==
    [][ /\ \A e \in 1..Len(compiler.frames) : \A n \in KnownNames(compiler.frames) \cup {"y"} :
              /\ lookup(compiler.frames, e, n) = Nearest(compiler.frames, e, n)
              /\ lookup(compiler.frames, e, n) # None
                    => lookup(compiler'.frames, e, n) # None
        /\ Len(compiler'.frames) = Len(compiler.frames) /\ compiler'.frames # compiler.frames =>
              /\ \A e \in 1..Len(compiler.frames) :
                    e # compiler.env => compiler'.frames[e] = compiler.frames[e]
              /\ compiler'.frames[compiler.env].parent = compiler.frames[compiler.env].parent
              /\ \E n \in EnvNames :
                    /\ DOMAIN compiler'.frames[compiler.env].records
                          = DOMAIN compiler.frames[compiler.env].records \cup {n}
                    /\ \A m \in DOMAIN compiler.frames[compiler.env].records \ {n} :
                          compiler'.frames[compiler.env].records[m]
                              = compiler.frames[compiler.env].records[m]
        /\ Len(compiler'.frames) # Len(compiler.frames) =>
              SubSeq(compiler'.frames, 1, Len(compiler.frames)) = compiler.frames
      ]_vars

\* print is bound in the global frame and in a child frame, whose child
\* resolves it to the nearer binding, and x, which no frame binds, is absent
C23_Witness ==
    /\ Len(compiler.frames) = 3
    /\ compiler.frames[3].parent = 2
    /\ "print" \in DOMAIN compiler.frames[2].records
    /\ "print" \notin DOMAIN compiler.frames[3].records
    /\ lookup(compiler.frames, 3, "print") = compiler.frames[2].records["print"]
    /\ lookup(compiler.frames, 3, "print") # compiler.frames[1].records["print"]
    /\ lookup(compiler.frames, 3, "x") = None


-----------------------------------------------------------------------------
(* SpecStmt: the lowering, one statement at a time, of programs made of     *)
(* one-line statements: a declaration, an assignment to a name that is not  *)
(* bound, calls of a name that is not bound, a return, `not` of an int and  *)
(* of a float, infix expressions on strings, and a while with a break.      *)

MaxStmtFragments == 3

StmtFragments ==
    {<<"v", "a", "r", " ", "x", ":", " ", "i", "n", "t", " ", "=", " ", "1", ";", "\n">>,
     <<"y", " ", "=", " ", "1", ";", "\n">>,
     <<"g", "(", ")", ";", "\n">>,
     <<"g", "(", "l", "e", "n", "(", "\"", "a", "\"", ")", ")", ";", "\n">>,
     <<"r", "e", "t", "u", "r", "n", " ", "x", ";", "\n">>,
     <<"v", "a", "r", " ", "b", ":", " ", "b", "o", "o", "l", " ", "=", " ", "n", "o", "t", " ", "x", ";", "\n">>,
     <<"n", "o", "t", " ", "0", ".", "5", ";", "\n">>,
     <<"\"", "a", "\"", " ", "-", " ", "\"", "b", "\"", ";", "\n">>,
     <<"x", " ", "*", " ", "\"", "a", "\"", ";", "\n">>,
     <<"w", "h", "i", "l", "e", " ", "x", " ", "<", " ", "3", ":", " ", "b", "r", "e", "a", "k", ";", " ", "e", "n", "d", "\n">>}

\* the state in which run_compilation has called Compiler.compile(ast)
StmtInit ==
    /\ src \in Texts(StmtFragments, MaxStmtFragments)
    /\ pc = "lower"
    /\ lexer = tokenize(src)
    /\ lexer.exc = "" /\ lexer.errs = <<>>
    /\ tokens = sanitize(lexer.toks)
    /\ passes = 1
    /\ parser = parse_program(tokens)
    /\ parser.exc = "" /\ parser.errs = <<>>
    /\ compiler = visit_program(CompilerInit, parser.node)
    /\ started = <<"lex", "parse", "lower">>
    /\ ran = FALSE
    /\ exitCode = <<>>

StmtNext == CompileStatement \/ LeaveWhile \/ LeaveProgram

SpecStmt == StmtInit /\ [][StmtNext]_vars

\* the instructions that the step emits
Emitted == SubSeq(compiler'.ir, Len(compiler.ir) + 1, Len(compiler'.ir))

\* the step emits neither a store nor a call
NoStoreNoCall == \A i \in 1..Len(Emitted) : Emitted[i].ins.op \notin {"store", "call"}

\* the statement to lower is an assignment to a name that is not bound
AssignsUnbound ==
    /\ Lowers("AssignStatement")
    /\ lookup(compiler.frames, compiler.env, Head(compiler.todo).node.ident.value) = None

\* the statement to lower is a call of a function name that is not bound
CallsUnbound ==
    /\ Lowers("ExpressionStatement")
    /\ Head(compiler.todo).node.expr.type = "CallExpression"
    /\ Head(compiler.todo).node.expr.function.type = "IdentifierLiteral"
    /\ lookup(compiler.frames, compiler.env,
              Head(compiler.todo).node.expr.function.value) = None

\* C24: name errors - an assignment whose target is not bound, and a call
\* to a function name that is not bound, fail at lowering with a Name
\* Error, and in both cases no store or call instruction is emitted for the
\* statement.
C24_NameErrors ==
    [][ (AssignsUnbound \/ CallsUnbound) =>
            compiler'.exc = "NameError" /\ NoStoreNoCall ]_vars

\* the part of C24 that the code keeps: the assignment
C24_AssignTarget ==
    [][ AssignsUnbound => compiler'.exc = "NameError" /\ compiler'.ir = compiler.ir ]_vars

\* what the code does for the call: the failure is the TypeError of
\* unpacking None, after the instructions of the arguments
C24_CallRaisesTypeError ==
    [][ CallsUnbound => compiler'.exc = "TypeError" ]_vars


-----------------------------------------------------------------------------
(* The front end of an imported file against the front end of the main      *)
(* file (SpecParse).                                                         *)

\* p is a program parsed without error
ParsedClean(p) == p.exc = "" /\ Len(p.errs) = 0

\* the tokens of the text are accepted by the front end of the main file:
\* run_lexical_analysis sanitizes them before run_parsing
AcceptedAsMain == Len(lexer.errs) = 0 /\ ParsedClean(parse_program(sanitize(lexer.toks)))

\* the front end of visit_import_statement has parsed the text
ImportParsed == pc = "parsed" /\ passes = 0

\* C25: import goes through the same front end - the imported file is
\* lexed, sanitized and parsed as the main file is, so a text is accepted
\* as an imported file exactly when it is accepted as the main file, also
\* when it leaves out a `;` that the sanitizer inserts.
C25_ImportFrontEnd ==
    ImportParsed => ((Len(lexer.errs) = 0 /\ ParsedClean(parser)) <=> AcceptedAsMain)

\* what the code keeps of C25: a text accepted as an imported file is
\* accepted as the main file
C25_ImportAcceptsLess ==
    ImportParsed => ((Len(lexer.errs) = 0 /\ ParsedClean(parser)) => AcceptedAsMain)


-----------------------------------------------------------------------------
(* Prefix and infix expressions of the statement to lower (SpecStmt).       *)

\* the expression that the statement to lower evaluates first, if it is
\* a declaration with a value or an expression statement
TopExpressions ==
    IF ~Ready("statement") THEN {}
    ELSE LET node == Head(compiler.todo).node
         IN  CASE node.type = "ExpressionStatement" -> {node.expr}
               [] node.type = "VarStatement" /\ node.value # NoNode -> {node.value}
               [] OTHER -> {}

\* the `not` expressions among them whose operand is lowered to an int or
\* to a float
NotOfNumbers ==
    {e \in {t \in TopExpressions : t.type = "PrefixExpression"} :
        /\ e.operator = "not"
        /\ resolve_value(compiler, e.right_node).exc = ""
        /\ resolve_value(compiler, e.right_node).type \in {"i64", "double"}}

\* C26: `not x` for an int or float operand emits a comparison with zero
\* and returns i1 - both the value produced and the result type reported
\* are i1.
C26_NotIsBool ==
    \A e \in NotOfNumbers :
        /\ resolve_value(compiler, e).exc = ""
        /\ resolve_value(compiler, e).vtype = "i1"
        /\ resolve_value(compiler, e).type = "i1"

\* what the code does: the value is the i1 of a comparison, and the type
\* reported is the type of the operand
C26_NotReportsOperandType ==
    \A e \in NotOfNumbers :
        /\ resolve_value(compiler, e).exc = ""
        /\ resolve_value(compiler, e).vtype = "i1"
        /\ resolve_value(compiler, e).ins[Len(resolve_value(compiler, e).ins)].op
              \in {"icmp_signed", "fcmp_ordered"}
        /\ resolve_value(compiler, e).type = resolve_value(compiler, e.right_node).type


\* C27: nothing after a terminator - once a ret, or any other terminator,
\* has been emitted into a block, lowering emits no further instruction
\* into that block: every block holds at most one terminator, and it is
\* the last instruction of the block (also for a return followed by more
\* statements, a return at top level before the default `ret 0` of .main,
\* and a break directly in a while body).
C27_TerminatorIsLast ==
    \A i \in 1..Len(compiler.ir) : \A j \in 1..Len(compiler.ir) :
        (i < j /\ compiler.ir[i].block = compiler.ir[j].block)
            => compiler.ir[i].ins.op \notin Terminators

\* the same for the instructions that are not terminators: none of them
\* is emitted into a block after its terminator
C27_OnlyTerminatorsFollow ==
    \A i \in 1..Len(compiler.ir) : \A j \in 1..Len(compiler.ir) :
        (/\ i < j
         /\ compiler.ir[i].block = compiler.ir[j].block
         /\ compiler.ir[j].ins.op \notin Terminators)
            => compiler.ir[i].ins.op \notin Terminators

\* the infix expressions that the statement to lower evaluates first whose
\* operator is not supported for the types of the operands: two strings
\* with an operator other than +, or a string with a number
UnsupportedInfix ==
    {e \in {t \in TopExpressions : t.type = "InfixExpression"} :
        /\ resolve_value(compiler, e.left_node).exc = ""
        /\ resolve_value(compiler, e.right_node).exc = ""
        /\ \/ /\ resolve_value(compiler, e.left_node).type = "i8*"
              /\ resolve_value(compiler, e.right_node).type = "i8*"
              /\ e.operator # "+"
           \/ /\ resolve_value(compiler, e.left_node).type = "i8*"
              /\ resolve_value(compiler, e.right_node).type \in {"i64", "double"}
           \/ /\ resolve_value(compiler, e.left_node).type \in {"i64", "double"}
              /\ resolve_value(compiler, e.right_node).type = "i8*"}

\* C28: an infix expression whose operator is not supported for the types
\* of its operands is reported as a Type Error; lowering never returns an
\* absent value for it without reporting.
C28_UnsupportedInfix ==
    [][ UnsupportedInfix # {} =>
            /\ compiler'.exc = "TypeError"
            /\ \A e \in UnsupportedInfix : resolve_value(compiler, e).exc = "TypeError"
      ]_vars

\* what the code does: the expression is lowered to the absent value with
\* the absent type, no exception is raised, and lowering goes on
C28_AbsentValue ==
    [][ UnsupportedInfix # {} =>
            /\ compiler'.exc = ""
            /\ \A e \in UnsupportedInfix :
                  /\ resolve_value(compiler, e).exc = ""
                  /\ resolve_value(compiler, e).type = "None"
                  /\ resolve_value(compiler, e).vtype = "None"
      ]_vars


-----------------------------------------------------------------------------
(* SpecAssign: the lowering of assignments to an int variable and to a      *)
(* float variable, with every assignment operator and an int or a float     *)
(* right-hand side.                                                         *)

MaxAssignments == 2

AssignDeclarations ==
    <<"v", "a", "r", " ", "x", ":", " ", "i", "n", "t", " ", "=", " ", "1", ";", "\n", "v", "a", "r", " ", "r", ":", " ", "f", "l", "o", "a", "t", " ", "=", " ", "0", ".", "5", ";", "\n">>

AssignTargets == {<<"x">>, <<"r">>}

AssignOperators ==
    {<<"=">>, <<"+", "=">>, <<"-", "=">>, <<"*", "=">>, <<"/", "=">>, <<"%", "=">>, <<"*", "*", "=">>}

AssignValues == {<<"2">>, <<"2", ".", "5">>}

AssignLines ==
    {t \o <<" ">> \o o \o <<" ">> \o v \o <<";", "\n">> :
        t \in AssignTargets, o \in AssignOperators, v \in AssignValues}

\* the state in which run_compilation has called Compiler.compile(ast)
AssignInit ==
    /\ src \in {AssignDeclarations \o text : text \in Texts(AssignLines, MaxAssignments)}
    /\ pc = "lower"
    /\ lexer = tokenize(src)
    /\ tokens = sanitize(lexer.toks)
    /\ passes = 1
    /\ parser = parse_program(tokens)
    /\ parser.exc = "" /\ parser.errs = <<>>
    /\ compiler = visit_program(CompilerInit, parser.node)
    /\ started = <<"lex", "parse", "lower">>
    /\ ran = FALSE
    /\ exitCode = <<>>

AssignNext == CompileStatement \/ LeaveProgram

SpecAssign == AssignInit /\ [][AssignNext]_vars

\* the type of the slot of the target of the assignment to lower
SlotType == lookup(compiler.frames, compiler.env, Head(compiler.todo).node.ident.value).type

\* the step stores a value of type t into the slot of the target, as its
\* last instruction
Stores(t) ==
    /\ Emitted # <<>>
    /\ Emitted[Len(Emitted)].ins = Store(t, SlotType)

\* C29: assignment keeps the slot type - for every assignment operator
\* (= += -= *= /= %= **=) and every int/float combination of slot type and
\* right-hand side type, the value stored back has the IR type of the
\* target's slot (an int variable still holds an i64 after `x = 2.5`,
\* `x += 2.5` and `x **= 2`).
C29_StoredTypeIsSlotType ==
    [][ Lowers("AssignStatement") => compiler'.exc = "" /\ Stores(SlotType) ]_vars

\* what the code does: the value stored into an int slot is a double when
\* the right-hand side is a float or the operator is **=, and has the type
\* of the slot in every other case
C29_IntSlotGetsDouble ==
    [][ Lowers("AssignStatement") =>
            /\ compiler'.exc = ""
            /\ IF /\ SlotType = "i64"
                  /\ \/ Head(compiler.todo).node.right_value.type = "FloatLiteral"
                     \/ Head(compiler.todo).node.operator = "**="
               THEN Stores("double")
               ELSE Stores(SlotType)
      ]_vars


-----------------------------------------------------------------------------
(* The control flow of a while loop (SpecLoop).                             *)

\* block is the body block of a while statement
IsLoopBody(block) == block[1] = "while_loop_entry"

\* instruction ins passes control to the body block of a while statement
\* without a test, or when the test is false
SkipsTest(ins) ==
    \/ ins.op = "branch" /\ IsLoopBody(ins.target)
    \/ ins.op = "cbranch" /\ IsLoopBody(ins.falsebr)

\* C30: the body runs only on a true test - in the lowered control flow of
\* a while loop the first instruction of the body is reached only directly
\* after the loop condition has been evaluated and found true, also when
\* the previous iteration ended with continue: the only instructions that
\* pass control to a body block are the conditional branches on the loop
\* condition, through their true edge.
C30_BodyOnlyAfterTrueTest ==
    \A i \in 1..Len(compiler.ir) : ~SkipsTest(compiler.ir[i].ins)

\* what the code does: a continue, and nothing else, branches to the body
\* block without a test
C30_OnlyContinueSkipsTest ==
    [][ Lowering(compiler) =>
           ((\E i \in 1..Len(Emitted) : SkipsTest(Emitted[i].ins))
            <=> (Lowers("ContinueStatement") /\ compiler'.exc = "")) ]_vars

=============================================================================
